---- MODULE Spec2Model ----
(***************************************************************************)
(* Primer binding site search of packages/ove/src/utils/                   *)
(* findPrimerBindingSites.js, as a state machine: one call of              *)
(* findPrimerBindingSites on inputs drawn from bounded sets, stepping      *)
(* through normalisation, the forward and reverse scans, the sort, the     *)
(* pairwise deduplication and the final id assignment.                     *)
(*                                                                         *)
(* SpecOptions is the same call with a Tm calculator injected.             *)
(* SpecResweep is one call of the older copy of the function kept in       *)
(* demo-dist/ove/MultiTabEditor/index.d.ts, which searches the whole       *)
(* primer and then each shorter 3' binding region.                         *)
(* SpecRanking applies getBetterBindingSite to pairs of sites; the copy of *)
(* unnamed/part_000 that accepts consecutive matches only is given as      *)
(* operators.                                                              *)
(*                                                                         *)
(* The multi-tab editor is modelled beside it: SpecTabs dispatches the     *)
(* actions of redux/fileTabs.js, SpecInitialize dispatches                 *)
(* initializeMultiTabEditor once, and SpecMount is the mount of            *)
(* MultiTabEditor with its two effects.                                    *)
(*                                                                         *)
(* Strings are sequences of one-character strings.  JavaScript indices are *)
(* 0-based; CharAt and At translate them.                                  *)
(***************************************************************************)
EXTENDS Integers, Sequences, FiniteSets, TLC

\* ------------------------------------------------------------------ bounds
MaxPrimerLen == 3
MaxTemplateLen == 5

\* ------------------------------------------------------------------ inputs
InputBases == {"A", "T"}

StringsUpTo(S, n) == UNION {[1..k -> S] : k \in 0..n}

\* Raw inputs that exercise normalisation and the G/C complement pair.
ExtraPrimers ==
  { <<"a", "t">>, <<"A", " ", "T">>, <<" ">>, <<"G", "C", "A">>, <<"g", "A">> }

ExtraTemplates ==
  { <<"a", "t", "A">>, <<"T", "G", "C", "A">>, <<"G", "C", "A", "t", "C">> }

PrimerInputs == StringsUpTo(InputBases, MaxPrimerLen) \cup ExtraPrimers
TemplateInputs == StringsUpTo(InputBases, MaxTemplateLen) \cup ExtraTemplates
MaxMismatchesInputs == {-1, 0, 1, 2}
MinBindingRegionInputs == {1, 2, 4}

\* The calculateTm argument: left out; a calculator that answers for every
\* sequence; one that rejects (throws on) a sequence of fewer than two bases;
\* and that one inside the try/catch wrapper handleSearch injects.
TmCalculators == {"omitted", "wallace", "strict", "guarded"}

\* ------------------------------------------------------------ JS helpers
\* s[i] with a 0-based index; out of range reads give undefined.
CharAt(s, i) == IF i >= 0 /\ i < Len(s) THEN s[i + 1] ELSE "undefined"

\* arr[i] with a 0-based index.
At(arr, i) == arr[i + 1]

\* s.slice(from) and s.slice(from, to) for 0 <= from.
Slice(s, from, to) ==
  LET lo == IF from < 0 THEN 0 ELSE from
      hi == IF to > Len(s) THEN Len(s) ELSE to
  IN IF hi <= lo THEN <<>> ELSE [x \in 1..(hi - lo) |-> s[lo + x]]

\* JavaScript's % keeps the sign of the dividend.
JsRem(a, b) == IF a >= 0 THEN a % b ELSE 0 - ((0 - a) % b)

Max(a, b) == IF a > b THEN a ELSE b
Min(a, b) == IF a < b THEN a ELSE b

\* Mutant of IsFalsy: the guard tests for a missing argument only, so an empty
\* string passes it.
IsFalsy_MissingOnly(s) == FALSE

\* !s for a string: only the empty string is falsy.
IsFalsy(s) == Len(s) = 0

UpperChar(c) ==
  CASE c = "a" -> "A"
    [] c = "c" -> "C"
    [] c = "g" -> "G"
    [] c = "t" -> "T"
    [] OTHER -> c

toUpperCase(s) == [x \in 1..Len(s) |-> UpperChar(s[x])]

IsWhitespace(c) == c \in {" ", "\t", "\n"}

\* s.replace(/\s/g, "")
StripWhitespace(s) == SelectSeq(s, LAMBDA c : ~IsWhitespace(c))

NormalizePrimer(s) == StripWhitespace(toUpperCase(s))
NormalizeSequence(s) == toUpperCase(s)

ComplementChar(c) ==
  CASE c = "A" -> "T"
    [] c = "T" -> "A"
    [] c = "G" -> "C"
    [] c = "C" -> "G"
    [] OTHER -> c

getComplementSequenceString(s) == [x \in 1..Len(s) |-> ComplementChar(s[x])]

Reverse(s) == [x \in 1..Len(s) |-> s[Len(s) + 1 - x]]

\* getComplementSequenceString(primer).split("").reverse().join("")
ReverseComplement(s) == Reverse(getComplementSequenceString(s))

\* ------------------------------------------------- seed-and-extend matcher
Invalid(consecutive) ==
  [isValid |-> FALSE, bindingLength |-> 0, mismatchPositions |-> <<>>,
   consecutiveMatches |-> consecutive]

\* Check 2 of findOptimalBinding: the run of exact matches from index i down.
RECURSIVE CountFrom3Prime(_, _, _)
CountFrom3Prime(primer, template, i) ==
  IF i >= 0 /\ CharAt(primer, i) = CharAt(template, i)
  THEN 1 + CountFrom3Prime(primer, template, i - 1)
  ELSE 0

\* Mutant of Extend3Prime: the budget test of line 325 lets one mismatch too
\* many through.
RECURSIVE Extend3Prime_BudgetOffByOne(_, _, _, _, _, _)
Extend3Prime_BudgetOffByOne(primer, template, maxMism, i, mism, bindingLength) ==
  IF i < 0
  THEN [mismatchPositions |-> mism, bindingLength |-> bindingLength]
  ELSE IF CharAt(primer, i) = CharAt(template, i)
  THEN Extend3Prime_BudgetOffByOne(primer, template, maxMism, i - 1, mism,
                                   bindingLength + 1)
  ELSE IF Len(mism) <= maxMism
  THEN Extend3Prime_BudgetOffByOne(primer, template, maxMism, i - 1,
                                   Append(mism, i), bindingLength + 1)
  ELSE [mismatchPositions |-> mism, bindingLength |-> bindingLength]

\* Check 3 of findOptimalBinding: extend towards the 5' end from index i.
RECURSIVE Extend3Prime(_, _, _, _, _, _)
Extend3Prime(primer, template, maxMism, i, mism, bindingLength) ==
  IF i < 0
  THEN [mismatchPositions |-> mism, bindingLength |-> bindingLength]
  ELSE IF CharAt(primer, i) = CharAt(template, i)
  THEN Extend3Prime(primer, template, maxMism, i - 1, mism, bindingLength + 1)
  ELSE IF Len(mism) < maxMism
  THEN Extend3Prime(primer, template, maxMism, i - 1, Append(mism, i),
                    bindingLength + 1)
  ELSE [mismatchPositions |-> mism, bindingLength |-> bindingLength]

\* Mutant of findOptimalBinding: the seed test of line 310 is left out.
findOptimalBinding_NoSeedCheck(primer, template, maxMism, minBinding) ==
  IF Len(primer) # Len(template) THEN Invalid(0)
  ELSE
    LET length == Len(primer)
        consecutive == CountFrom3Prime(primer, template, length - 1)
        ext == Extend3Prime(primer, template, maxMism,
                            length - consecutive - 1, <<>>, consecutive)
    IN IF CharAt(primer, length - 1) # CharAt(template, length - 1)
       THEN Invalid(0)
       ELSE [isValid |-> TRUE, bindingLength |-> ext.bindingLength,
             mismatchPositions |-> ext.mismatchPositions,
             consecutiveMatches |-> consecutive]

\* Mutant of findOptimalBinding: the 3'-terminal base is not compared; the
\* seed is counted from the base before it.
findOptimalBinding_Skips3PrimeBase(primer, template, maxMism, minBinding) ==
  IF Len(primer) # Len(template) THEN Invalid(0)
  ELSE
    LET length == Len(primer)
        consecutive == 1 + CountFrom3Prime(primer, template, length - 2)
        ext == Extend3Prime(primer, template, maxMism,
                            length - consecutive - 1, <<>>, consecutive)
    IN IF consecutive < minBinding THEN Invalid(consecutive)
       ELSE [isValid |-> TRUE, bindingLength |-> ext.bindingLength,
             mismatchPositions |-> ext.mismatchPositions,
             consecutiveMatches |-> consecutive]

findOptimalBinding(primer, template, maxMism, minBinding) ==
  IF Len(primer) # Len(template) THEN Invalid(0)
  ELSE
    LET length == Len(primer)
        consecutive == CountFrom3Prime(primer, template, length - 1)
        ext == Extend3Prime(primer, template, maxMism,
                            length - consecutive - 1, <<>>, consecutive)
    IN IF CharAt(primer, length - 1) # CharAt(template, length - 1)
       THEN Invalid(0)
       ELSE IF consecutive < minBinding THEN Invalid(consecutive)
       ELSE [isValid |-> TRUE, bindingLength |-> ext.bindingLength,
             mismatchPositions |-> ext.mismatchPositions,
             consecutiveMatches |-> consecutive]

\* Check 2 of findOptimalBindingFrom5Prime: the run of matches from index i up.
RECURSIVE CountFrom5Prime(_, _, _)
CountFrom5Prime(primer, template, i) ==
  IF i < Len(primer) /\ CharAt(primer, i) = CharAt(template, i)
  THEN 1 + CountFrom5Prime(primer, template, i + 1)
  ELSE 0

\* Mutant of Extend5Prime: the first mismatch ends the extension, whatever
\* the budget of line 398 still allows.
RECURSIVE Extend5Prime_StopsAtFirstMismatch(_, _, _, _, _, _)
Extend5Prime_StopsAtFirstMismatch(primer, template, maxMism, i, mism, bindingLength) ==
  IF i >= Len(primer)
  THEN [mismatchPositions |-> mism, bindingLength |-> bindingLength]
  ELSE IF CharAt(primer, i) = CharAt(template, i)
  THEN Extend5Prime_StopsAtFirstMismatch(primer, template, maxMism, i + 1,
                                         mism, bindingLength + 1)
  ELSE [mismatchPositions |-> mism, bindingLength |-> bindingLength]

\* Check 3 of findOptimalBindingFrom5Prime: extend towards the 3' end.
RECURSIVE Extend5Prime(_, _, _, _, _, _)
Extend5Prime(primer, template, maxMism, i, mism, bindingLength) ==
  IF i >= Len(primer)
  THEN [mismatchPositions |-> mism, bindingLength |-> bindingLength]
  ELSE IF CharAt(primer, i) = CharAt(template, i)
  THEN Extend5Prime(primer, template, maxMism, i + 1, mism, bindingLength + 1)
  ELSE IF Len(mism) < maxMism
  THEN Extend5Prime(primer, template, maxMism, i + 1, Append(mism, i),
                    bindingLength + 1)
  ELSE [mismatchPositions |-> mism, bindingLength |-> bindingLength]

\* Mutant of findOptimalBindingFrom5Prime: the seed test of line 383 is left
\* out.
findOptimalBindingFrom5Prime_NoSeedCheck(primer, template, maxMism, minBinding) ==
  IF Len(primer) # Len(template) THEN Invalid(0)
  ELSE
    LET consecutive == CountFrom5Prime(primer, template, 0)
        ext == Extend5Prime(primer, template, maxMism, consecutive, <<>>,
                            consecutive)
    IN IF CharAt(primer, 0) # CharAt(template, 0)
       THEN Invalid(0)
       ELSE [isValid |-> TRUE, bindingLength |-> ext.bindingLength,
             mismatchPositions |-> ext.mismatchPositions,
             consecutiveMatches |-> consecutive]

findOptimalBindingFrom5Prime(primer, template, maxMism, minBinding) ==
  IF Len(primer) # Len(template) THEN Invalid(0)
  ELSE
    LET consecutive == CountFrom5Prime(primer, template, 0)
        ext == Extend5Prime(primer, template, maxMism, consecutive, <<>>,
                            consecutive)
    IN IF CharAt(primer, 0) # CharAt(template, 0)
       THEN Invalid(0)
       ELSE IF consecutive < minBinding THEN Invalid(consecutive)
       ELSE [isValid |-> TRUE, bindingLength |-> ext.bindingLength,
             mismatchPositions |-> ext.mismatchPositions,
             consecutiveMatches |-> consecutive]

\* ------------------------------------------------- the injected calculator
\* The number a calculator answers: 2 for each A or T, 4 for each G or C.
WallaceTm(seq) ==
  2 * Len(SelectSeq(seq, LAMBDA c : c \in {"A", "T"}))
  + 4 * Len(SelectSeq(seq, LAMBDA c : c \in {"G", "C"}))

\* The calculator proper rejects the sequence.
Rejects(calcTm, bindingSeq) ==
  calcTm \in {"strict", "guarded"} /\ Len(bindingSeq) < 2

\* calculateTm(bindingSeq) ends in an exception: the wrapper of handleSearch
\* catches the calculator's exception, the bare calculator lets it out.
CalculateTmThrows(calcTm, bindingSeq) ==
  calcTm = "strict" /\ Rejects(calcTm, bindingSeq)

\* calculateTm ? calculateTm(bindingSeq) : null, when the call returns.  The
\* field tm is the set of at most one number, null being the empty set; the
\* wrapper of handleSearch returns null from its catch.
TmField(calcTm, bindingSeq) ==
  IF calcTm = "omitted" \/ Rejects(calcTm, bindingSeq)
  THEN {}
  ELSE {WallaceTm(bindingSeq)}

\* --------------------------------------------------------- window scanner
\* The primer-length template region read from startPos, indices taken
\* modulo the template length (offset is the templateLength the forward scan
\* adds before the remainder, 0 in the reverse scan).
TemplateRegion(template, startPos, primerLength, offset) ==
  [x \in 1..primerLength |->
     CharAt(template, JsRem(startPos + (x - 1) + offset, Len(template)))]

\* Mutant of ForwardSite: the start is the window's start, the overhang is not
\* added.
ForwardSite_StartIgnoresOverhang(primer, template, endPos, startPos, templateRegion, bindingResult, calcTm) ==
  LET primerLength == Len(primer)
      templateLength == Len(template)
      overhangLength == primerLength - bindingResult.bindingLength
  IN [start |-> JsRem(startPos + templateLength, templateLength),
      end |-> endPos,
      forward |-> TRUE,
      strand |-> "+",
      numMismatches |-> Len(bindingResult.mismatchPositions),
      mismatchPositions |->
        [x \in 1..Len(bindingResult.mismatchPositions) |->
           bindingResult.mismatchPositions[x] - overhangLength],
      matchedSequence |-> Slice(templateRegion, overhangLength, primerLength),
      primerSequence |-> primer,
      bindingSequence |-> Slice(primer, overhangLength, primerLength),
      overhangSequence |->
        IF overhangLength > 0 THEN Slice(primer, 0, overhangLength) ELSE <<>>,
      overhangLength |-> overhangLength,
      hasOverhang |-> overhangLength > 0,
      fullPrimerMismatchPositions |->
        [x \in 1..overhangLength |-> x - 1] \o bindingResult.mismatchPositions,
      reverseComplementSearched |-> <<"undefined">>,
      tm |-> TmField(calcTm, Slice(primer, overhangLength, primerLength))]

ForwardSite(primer, template, endPos, startPos, templateRegion, bindingResult, calcTm) ==
  LET primerLength == Len(primer)
      templateLength == Len(template)
      overhangLength == primerLength - bindingResult.bindingLength
  IN [start |-> JsRem(startPos + overhangLength + templateLength, templateLength),
      end |-> endPos,
      forward |-> TRUE,
      strand |-> "+",
      numMismatches |-> Len(bindingResult.mismatchPositions),
      mismatchPositions |->
        [x \in 1..Len(bindingResult.mismatchPositions) |->
           bindingResult.mismatchPositions[x] - overhangLength],
      matchedSequence |-> Slice(templateRegion, overhangLength, primerLength),
      primerSequence |-> primer,
      bindingSequence |-> Slice(primer, overhangLength, primerLength),
      overhangSequence |->
        IF overhangLength > 0 THEN Slice(primer, 0, overhangLength) ELSE <<>>,
      overhangLength |-> overhangLength,
      hasOverhang |-> overhangLength > 0,
      fullPrimerMismatchPositions |->
        [x \in 1..overhangLength |-> x - 1] \o bindingResult.mismatchPositions,
      reverseComplementSearched |-> <<"undefined">>,
      tm |-> TmField(calcTm, Slice(primer, overhangLength, primerLength))]

\* Mutant of ReverseSite: the inclusive end is computed without the - 1.
ReverseSite_EndOffByOne(primer, primerRC, template, startPos, templateRegion, bindingResult, calcTm) ==
  LET primerLength == Len(primer)
      overhangLength == primerLength - bindingResult.bindingLength
  IN [start |-> startPos,
      end |-> startPos + bindingResult.bindingLength,
      forward |-> FALSE,
      strand |-> "-",
      numMismatches |-> Len(bindingResult.mismatchPositions),
      mismatchPositions |->
        [x \in 1..Len(bindingResult.mismatchPositions) |->
           primerLength - 1 - bindingResult.mismatchPositions[x] - overhangLength],
      matchedSequence |-> Slice(templateRegion, 0, bindingResult.bindingLength),
      primerSequence |-> primer,
      bindingSequence |-> Slice(primer, overhangLength, primerLength),
      overhangSequence |->
        IF overhangLength > 0 THEN Slice(primer, 0, overhangLength) ELSE <<>>,
      overhangLength |-> overhangLength,
      hasOverhang |-> overhangLength > 0,
      fullPrimerMismatchPositions |->
        [x \in 1..overhangLength |-> x - 1] \o
        [x \in 1..Len(bindingResult.mismatchPositions) |->
           primerLength - 1 - bindingResult.mismatchPositions[x]],
      reverseComplementSearched |-> primerRC,
      tm |-> TmField(calcTm, Slice(primer, overhangLength, primerLength))]

\* Mutant of ReverseSite: the mismatch positions are left in the coordinates
\* of the reverse complement.
ReverseSite_MismatchesInRCCoordinates(primer, primerRC, template, startPos, templateRegion, bindingResult, calcTm) ==
  LET primerLength == Len(primer)
      overhangLength == primerLength - bindingResult.bindingLength
  IN [start |-> startPos,
      end |-> startPos + bindingResult.bindingLength - 1,
      forward |-> FALSE,
      strand |-> "-",
      numMismatches |-> Len(bindingResult.mismatchPositions),
      mismatchPositions |-> bindingResult.mismatchPositions,
      matchedSequence |-> Slice(templateRegion, 0, bindingResult.bindingLength),
      primerSequence |-> primer,
      bindingSequence |-> Slice(primer, overhangLength, primerLength),
      overhangSequence |->
        IF overhangLength > 0 THEN Slice(primer, 0, overhangLength) ELSE <<>>,
      overhangLength |-> overhangLength,
      hasOverhang |-> overhangLength > 0,
      fullPrimerMismatchPositions |->
        [x \in 1..overhangLength |-> x - 1] \o
        [x \in 1..Len(bindingResult.mismatchPositions) |->
           overhangLength + bindingResult.mismatchPositions[x]],
      reverseComplementSearched |-> primerRC,
      tm |-> TmField(calcTm, Slice(primer, overhangLength, primerLength))]

ReverseSite(primer, primerRC, template, startPos, templateRegion, bindingResult, calcTm) ==
  LET primerLength == Len(primer)
      overhangLength == primerLength - bindingResult.bindingLength
  IN [start |-> startPos,
      end |-> startPos + bindingResult.bindingLength - 1,
      forward |-> FALSE,
      strand |-> "-",
      numMismatches |-> Len(bindingResult.mismatchPositions),
      mismatchPositions |->
        [x \in 1..Len(bindingResult.mismatchPositions) |->
           primerLength - 1 - bindingResult.mismatchPositions[x] - overhangLength],
      matchedSequence |-> Slice(templateRegion, 0, bindingResult.bindingLength),
      primerSequence |-> primer,
      bindingSequence |-> Slice(primer, overhangLength, primerLength),
      overhangSequence |->
        IF overhangLength > 0 THEN Slice(primer, 0, overhangLength) ELSE <<>>,
      overhangLength |-> overhangLength,
      hasOverhang |-> overhangLength > 0,
      fullPrimerMismatchPositions |->
        [x \in 1..overhangLength |-> x - 1] \o
        [x \in 1..Len(bindingResult.mismatchPositions) |->
           primerLength - 1 - bindingResult.mismatchPositions[x]],
      reverseComplementSearched |-> primerRC,
      tm |-> TmField(calcTm, Slice(primer, overhangLength, primerLength))]

\* One iteration of the forward loop: the sites (none or one) of the window
\* whose 3' end is at endPos.
ForwardWindow(primer, template, maxMism, minBinding, circular, calcTm, endPos) ==
  LET primerLength == Len(primer)
      startPos == endPos - primerLength + 1
      templateRegion ==
        TemplateRegion(template, startPos, primerLength, Len(template))
      bindingResult ==
        findOptimalBinding(primer, templateRegion, maxMism, minBinding)
  IN IF startPos < 0 /\ ~circular THEN <<>>
     ELSE IF bindingResult.isValid
     THEN <<ForwardSite(primer, template, endPos, startPos, templateRegion,
                        bindingResult, calcTm)>>
     ELSE <<>>

\* Mutant of ForwardScan: the loop test of line 114 is <=, one window past the
\* end of the template.
RECURSIVE ForwardScan_OnePastEnd(_, _, _, _, _, _, _)
ForwardScan_OnePastEnd(primer, template, maxMism, minBinding, circular, calcTm, endPos) ==
  IF endPos <= Len(template)
  THEN ForwardWindow(primer, template, maxMism, minBinding, circular, calcTm, endPos)
       \o ForwardScan_OnePastEnd(primer, template, maxMism, minBinding,
                                 circular, calcTm, endPos + 1)
  ELSE <<>>

RECURSIVE ForwardScan(_, _, _, _, _, _, _)
ForwardScan(primer, template, maxMism, minBinding, circular, calcTm, endPos) ==
  IF endPos < Len(template)
  THEN ForwardWindow(primer, template, maxMism, minBinding, circular, calcTm, endPos)
       \o ForwardScan(primer, template, maxMism, minBinding, circular, calcTm, endPos + 1)
  ELSE <<>>

\* One iteration of the reverse loop: the sites of the window starting at
\* startPos.
ReverseWindow(primer, template, maxMism, minBinding, circular, calcTm, startPos) ==
  LET primerLength == Len(primer)
      primerRC == ReverseComplement(primer)
      endPos == startPos + primerLength - 1
      templateRegion == TemplateRegion(template, startPos, primerLength, 0)
      bindingResult ==
        findOptimalBindingFrom5Prime(primerRC, templateRegion, maxMism, minBinding)
  IN IF endPos >= Len(template) /\ ~circular THEN <<>>
     ELSE IF bindingResult.isValid
     THEN <<ReverseSite(primer, primerRC, template, startPos, templateRegion,
                        bindingResult, calcTm)>>
     ELSE <<>>

RECURSIVE ReverseScan(_, _, _, _, _, _, _)
ReverseScan(primer, template, maxMism, minBinding, circular, calcTm, startPos) ==
  IF startPos <= Len(template) - Len(primer)
  THEN ReverseWindow(primer, template, maxMism, minBinding, circular, calcTm, startPos)
       \o ReverseScan(primer, template, maxMism, minBinding, circular, calcTm, startPos + 1)
  ELSE <<>>

\* Mutant of searchForBindingSites: the forward loop starts one window late.
searchForBindingSites_SkipsFirstWindow(primer, template, forward, maxMism, minBinding, circular, calcTm) ==
  IF forward
  THEN ForwardScan(primer, template, maxMism, minBinding, circular, calcTm, Len(primer))
  ELSE ReverseScan(primer, template, maxMism, minBinding, circular, calcTm, 0)

searchForBindingSites(primer, template, forward, maxMism, minBinding, circular, calcTm) ==
  IF forward
  THEN ForwardScan(primer, template, maxMism, minBinding, circular, calcTm,
                   Len(primer) - 1)
  ELSE ReverseScan(primer, template, maxMism, minBinding, circular, calcTm, 0)

\* ------------------------------------------------------------------- sort
\* results.sort((a, b) => a.start - b.start): Array.prototype.sort is stable,
\* so an element goes after every element whose start is not greater.
RECURSIVE InsertByStart(_, _)
InsertByStart(sorted, x) ==
  IF sorted = <<>> THEN <<x>>
  ELSE IF Head(sorted).start <= x.start
  THEN <<Head(sorted)>> \o InsertByStart(Tail(sorted), x)
  ELSE <<x>> \o sorted

RECURSIVE SortByStart(_)
SortByStart(arr) ==
  IF arr = <<>> THEN <<>>
  ELSE InsertByStart(SortByStart(SubSeq(arr, 1, Len(arr) - 1)), arr[Len(arr)])

\* ------------------------------------------------------- dominance filter
\* Mutant of getBetterBindingSite: the overhang comparison is turned round.
getBetterBindingSite_LongerOverhang(a, b) ==
  IF a.numMismatches # b.numMismatches
  THEN (IF a.numMismatches < b.numMismatches THEN a ELSE b)
  ELSE IF a.overhangLength # b.overhangLength
  THEN (IF a.overhangLength > b.overhangLength THEN a ELSE b)
  ELSE IF Len(a.bindingSequence) # Len(b.bindingSequence)
  THEN (IF Len(a.bindingSequence) > Len(b.bindingSequence) THEN a ELSE b)
  ELSE a

\* Mutant of getBetterBindingSite: a full tie returns the second argument.
getBetterBindingSite_TieReturnsSecond(a, b) ==
  IF a.numMismatches # b.numMismatches
  THEN (IF a.numMismatches < b.numMismatches THEN a ELSE b)
  ELSE IF a.overhangLength # b.overhangLength
  THEN (IF a.overhangLength < b.overhangLength THEN a ELSE b)
  ELSE IF Len(a.bindingSequence) # Len(b.bindingSequence)
  THEN (IF Len(a.bindingSequence) > Len(b.bindingSequence) THEN a ELSE b)
  ELSE b

getBetterBindingSite(a, b) ==
  IF a.numMismatches # b.numMismatches
  THEN (IF a.numMismatches < b.numMismatches THEN a ELSE b)
  ELSE IF a.overhangLength # b.overhangLength
  THEN (IF a.overhangLength < b.overhangLength THEN a ELSE b)
  ELSE IF Len(a.bindingSequence) # Len(b.bindingSequence)
  THEN (IF Len(a.bindingSequence) > Len(b.bindingSequence) THEN a ELSE b)
  ELSE a

\* Mutant of OverlapsSignificantly: the threshold of line 447 is three
\* quarters of the shorter interval.
OverlapsSignificantly_ThreeQuarters(a, b) ==
  LET overlapLength == Max(0, Min(a.end, b.end) - Max(a.start, b.start) + 1)
      minLength == Min(a.end - a.start + 1, b.end - b.start + 1)
  IN 4 * overlapLength > 3 * minLength

\* The test of line 447, overlapLength > minLength * 0.5, in integers.
OverlapsSignificantly(a, b) ==
  LET overlapStart == Max(a.start, b.start)
      overlapEnd == Min(a.end, b.end)
      overlapLength == Max(0, overlapEnd - overlapStart + 1)
      aLength == a.end - a.start + 1
      bLength == b.end - b.start + 1
      minLength == Min(aLength, bLength)
  IN 2 * overlapLength > minLength

\* Mutant of IsDuplicatePair: the strand test of line 434 is left out.
IsDuplicatePair_IgnoresStrand(a, b) == OverlapsSignificantly(a, b)

\* Two candidates the filter treats as duplicates of one site.
IsDuplicatePair(a, b) == a.forward = b.forward /\ OverlapsSignificantly(a, b)

\* The index the body of the if at line 447 adds to dominated for the pair
\* (i, j).  Candidates of one scan differ in at least one coordinate, so the
\* identity test === a is equality of the records.
DominatedIdx(arr, i, j) ==
  IF getBetterBindingSite(At(arr, i), At(arr, j)) = At(arr, i) THEN j ELSE i

\* From loop position (i, j) (outer index i, inner index j about to be
\* tested), the next pair for which the loops reach line 448, or done.  The
\* outer test dominated.has(i) is made once, on entering iteration i.
RECURSIVE NextDuplicatePair(_, _, _, _)
NextDuplicatePair(arr, dom, i, j) ==
  IF i >= Len(arr) THEN [done |-> TRUE, i |-> i, j |-> j]
  ELSE IF j = i + 1 /\ i \in dom THEN NextDuplicatePair(arr, dom, i + 1, i + 2)
  ELSE IF j >= Len(arr) THEN NextDuplicatePair(arr, dom, i + 1, i + 2)
  ELSE IF j \in dom THEN NextDuplicatePair(arr, dom, i, j + 1)
  ELSE IF ~IsDuplicatePair(At(arr, i), At(arr, j))
  THEN NextDuplicatePair(arr, dom, i, j + 1)
  ELSE [done |-> FALSE, i |-> i, j |-> j]

\* The set dominated when both loops have ended.
RECURSIVE DominatedFrom(_, _, _, _)
DominatedFrom(arr, dom, i, j) ==
  LET nx == NextDuplicatePair(arr, dom, i, j)
  IN IF nx.done THEN dom
     ELSE DominatedFrom(arr, dom \cup {DominatedIdx(arr, nx.i, nx.j)}, nx.i,
                        nx.j + 1)

\* results.filter((_, idx) => !dominated.has(idx))
RECURSIVE FilterDominated(_, _, _)
FilterDominated(arr, dom, idx) ==
  IF idx >= Len(arr) THEN <<>>
  ELSE (IF idx \in dom THEN <<>> ELSE <<At(arr, idx)>>)
       \o FilterDominated(arr, dom, idx + 1)

deduplicateBindingSites(arr) ==
  IF Len(arr) <= 1 THEN arr
  ELSE FilterDominated(arr, DominatedFrom(arr, {}, 0, 1), 0)

\* ------------------------------------------------------- result assembler
\* { ...result, id: `binding-site-${index}` }
WithId(r, index) ==
  [start |-> r.start, end |-> r.end, forward |-> r.forward, strand |-> r.strand,
   numMismatches |-> r.numMismatches,
   mismatchPositions |-> r.mismatchPositions,
   matchedSequence |-> r.matchedSequence,
   primerSequence |-> r.primerSequence,
   bindingSequence |-> r.bindingSequence,
   overhangSequence |-> r.overhangSequence,
   overhangLength |-> r.overhangLength,
   hasOverhang |-> r.hasOverhang,
   fullPrimerMismatchPositions |-> r.fullPrimerMismatchPositions,
   reverseComplementSearched |-> r.reverseComplementSearched,
   tm |-> r.tm,
   id |-> <<"binding-site-", index>>]

\* Mutant of AddIds: the ids are numbered from 1.
AddIds_OneBased(arr) == [x \in 1..Len(arr) |-> WithId(arr[x], x)]

AddIds(arr) == [x \in 1..Len(arr) |-> WithId(arr[x], x - 1)]

\* Some call of calculateTm made while the sites were built throws: the
\* exception leaves the loop, searchForBindingSites and findPrimerBindingSites
\* (lines 163 and 262 are inside no try block).
ScanThrows(calcTm, sites) ==
  \E x \in 1..Len(sites) : CalculateTmThrows(calcTm, sites[x].bindingSequence)

\* How a call ends: with a returned array, or with an exception.
Returns(value) == [threw |-> FALSE, value |-> value]
Throws == [threw |-> TRUE, value |-> <<>>]

\* The whole function, on the raw arguments.
findPrimerBindingSites(primerSeq, fullSeq, maxMism, searchReverse, circular, calcTm, minBinding) ==
  IF IsFalsy(primerSeq) \/ IsFalsy(fullSeq) THEN Returns(<<>>)
  ELSE
    LET primer == NormalizePrimer(primerSeq)
        template == NormalizeSequence(fullSeq)
        forwardResults ==
          searchForBindingSites(primer, template, TRUE, maxMism, minBinding,
                                circular, calcTm)
        reverseResults ==
          IF searchReverse
          THEN searchForBindingSites(primer, template, FALSE, maxMism,
                                     minBinding, circular, calcTm)
          ELSE <<>>
    IN IF ScanThrows(calcTm, forwardResults) \/ ScanThrows(calcTm, reverseResults)
       THEN Throws
       ELSE Returns(AddIds(deduplicateBindingSites(
                      SortByStart(forwardResults \o reverseResults))))

\* ------------------------------------------------- the older, resweep copy
\* The copy of findPrimerBindingSites in demo-dist/ove/MultiTabEditor/
\* index.d.ts: a whole-sequence approximate search of the primer and then of
\* each shorter 3' binding region, one search per overhang length.

\* The 0-based indices 0 .. n-1 in order.
IndexSeq(n) == [x \in 1..n |-> x - 1]

\* findApproxMatches of @teselagen/sequence-utils, the windowed
\* Hamming-distance matcher: every offset whose window differs from
\* searchSeq in at most maxMism positions, in ascending order; on a circular
\* target the windows wrap.
findApproxMatches(searchSeq, targetSeq, maxMism, circular) ==
  LET lenSearch == Len(searchSeq)
      lenTarget == Len(targetSeq)
      windows == IF circular THEN lenTarget ELSE lenTarget - lenSearch + 1
      Base(i, x) ==
        CharAt(targetSeq, IF circular THEN (i + x) % lenTarget ELSE i + x)
      Mism(i) ==
        SelectSeq(IndexSeq(lenSearch),
                  LAMBDA x : CharAt(searchSeq, x) # Base(i, x))
      indices == SelectSeq(IndexSeq(windows), LAMBDA i : Len(Mism(i)) <= maxMism)
  IN [k \in 1..Len(indices) |->
        [index |-> indices[k],
         numMismatches |-> Len(Mism(indices[k])),
         mismatchPositions |-> Mism(indices[k])]]

\* complementMap[templateBase] of searchWithSequence: a base outside ACGT has
\* no entry.
ComplementMapChar(c) ==
  CASE c = "A" -> "T"
    [] c = "T" -> "A"
    [] c = "G" -> "C"
    [] c = "C" -> "G"
    [] OTHER -> "undefined"

\* The site searchWithSequence builds from one match.
MatchSite(match, searchSequence, targetSequence, forward, originalPrimer, overhangLength, calcTm) ==
  LET primerLength == Len(originalPrimer)
      bindingRegion ==
        IF forward
        THEN Slice(originalPrimer, overhangLength, primerLength)
        ELSE Slice(originalPrimer, 0, primerLength - overhangLength)
      overhangSequence ==
        IF overhangLength > 0
        THEN (IF forward
              THEN Slice(originalPrimer, 0, overhangLength)
              ELSE Slice(originalPrimer, primerLength - overhangLength,
                         primerLength))
        ELSE <<>>
      ForwardOverhangUnpaired(i) ==
        LET templateIdx == match.index - overhangLength + i
        IN \/ templateIdx < 0
           \/ templateIdx >= Len(targetSequence)
           \/ CharAt(originalPrimer, i) # CharAt(targetSequence, templateIdx)
      ReverseOverhangUnpaired(i) ==
        LET templateIdx == match.index + Len(searchSequence) + i
            primerIdx == primerLength - overhangLength + i
        IN \/ templateIdx >= Len(targetSequence)
           \/ CharAt(originalPrimer, primerIdx)
                # ComplementMapChar(CharAt(targetSequence, templateIdx))
      fullPrimerMismatchPositions ==
        IF forward
        THEN SelectSeq(IndexSeq(overhangLength),
                       LAMBDA i : ForwardOverhangUnpaired(i))
             \o [x \in 1..Len(match.mismatchPositions) |->
                   overhangLength + match.mismatchPositions[x]]
        ELSE [x \in 1..Len(SelectSeq(IndexSeq(overhangLength),
                                     LAMBDA i : ReverseOverhangUnpaired(i))) |->
                primerLength - overhangLength
                + SelectSeq(IndexSeq(overhangLength),
                            LAMBDA i : ReverseOverhangUnpaired(i))[x]]
             \o [x \in 1..Len(match.mismatchPositions) |->
                   Len(bindingRegion) - 1 - match.mismatchPositions[x]]
  IN [start |-> match.index,
      end |-> match.index + Len(searchSequence) - 1,
      forward |-> forward,
      strand |-> IF forward THEN "+" ELSE "-",
      numMismatches |-> match.numMismatches,
      mismatchPositions |-> match.mismatchPositions,
      matchedSequence |->
        Slice(targetSequence, match.index, match.index + Len(searchSequence)),
      primerSequence |-> originalPrimer,
      bindingSequence |-> bindingRegion,
      overhangSequence |-> overhangSequence,
      overhangLength |-> overhangLength,
      hasOverhang |-> overhangLength > 0,
      fullPrimerMismatchPositions |-> fullPrimerMismatchPositions,
      reverseComplementSearched |-> <<"undefined">>,
      tm |-> TmField(calcTm, bindingRegion)]

searchWithSequence(searchSequence, targetSequence, maxMism, circular, forward, originalPrimer, overhangLength, calcTm) ==
  LET matches ==
        findApproxMatches(searchSequence, targetSequence, maxMism, circular)
  IN [k \in 1..Len(matches) |->
        MatchSite(matches[k], searchSequence, targetSequence, forward,
                  originalPrimer, overhangLength, calcTm)]

\* The search of the whole primer on one strand (lines 70-79 and 119-131).
FullSearch(primer, target, maxMism, circular, forward, calcTm) ==
  searchWithSequence(IF forward THEN primer ELSE ReverseComplement(primer),
                     target, maxMism, circular, forward, primer, 0, calcTm)

\* The searches of the overhang loop of one strand (lines 84-115 and
\* 135-165), one list of sites per overhang length.
OverhangSearches(primer, target, maxMism, circular, forward, calcTm, minBinding, detect) ==
  LET primerLength == Len(primer)
      maxOverhangLength ==
        IF detect /\ primerLength > minBinding
        THEN primerLength - minBinding
        ELSE 0
      BindingRegion(overhangLen) ==
        IF forward
        THEN Slice(primer, overhangLen, primerLength)
        ELSE Slice(ReverseComplement(primer), 0, primerLength - overhangLen)
  IN [overhangLen \in 1..maxOverhangLength |->
        IF Len(BindingRegion(overhangLen)) < minBinding
        THEN <<>>
        ELSE searchWithSequence(BindingRegion(overhangLen), target, maxMism,
                                circular, forward, primer, overhangLen, calcTm)]

\* overhangResults.forEach: a result is pushed unless a site with the same
\* start, end and strand is in results already.
RECURSIVE PushUnlessDuplicate(_, _)
PushUnlessDuplicate(res, sites) ==
  IF sites = <<>> THEN res
  ELSE LET result == Head(sites)
           isDuplicate ==
             \E x \in 1..Len(res) :
               /\ res[x].start = result.start
               /\ res[x].end = result.end
               /\ res[x].forward = result.forward
       IN PushUnlessDuplicate(IF isDuplicate THEN res ELSE Append(res, result),
                              Tail(sites))

RECURSIVE PushSearches(_, _)
PushSearches(res, searches) ==
  IF searches = <<>> THEN res
  ELSE PushSearches(PushUnlessDuplicate(res, Head(searches)), Tail(searches))

\* results after the searches of one strand.
StrandSweep(res, primer, target, maxMism, circular, forward, calcTm, minBinding, detect) ==
  PushSearches(res \o FullSearch(primer, target, maxMism, circular, forward,
                                 calcTm),
               OverhangSearches(primer, target, maxMism, circular, forward,
                                calcTm, minBinding, detect))

\* Some call of calculateTm in the searches of one strand throws (line 378
\* is inside no try block).
StrandSweepThrows(primer, target, maxMism, circular, forward, calcTm, minBinding, detect) ==
  LET searches ==
        <<FullSearch(primer, target, maxMism, circular, forward, calcTm)>>
        \o OverhangSearches(primer, target, maxMism, circular, forward,
                            calcTm, minBinding, detect)
  IN \E k \in 1..Len(searches) : ScanThrows(calcTm, searches[k])

\* The sort of lines 169-172: by start, then by overhangLength; stable.
RECURSIVE InsertByStartThenOverhang(_, _)
InsertByStartThenOverhang(sorted, x) ==
  IF sorted = <<>> THEN <<x>>
  ELSE IF \/ Head(sorted).start < x.start
          \/ /\ Head(sorted).start = x.start
             /\ Head(sorted).overhangLength <= x.overhangLength
  THEN <<Head(sorted)>> \o InsertByStartThenOverhang(Tail(sorted), x)
  ELSE <<x>> \o sorted

RECURSIVE SortByStartThenOverhang(_)
SortByStartThenOverhang(arr) ==
  IF arr = <<>> THEN <<>>
  ELSE InsertByStartThenOverhang(
         SortByStartThenOverhang(SubSeq(arr, 1, Len(arr) - 1)), arr[Len(arr)])

\* The duplicate test of lines 210-226: same strand, and the same end or an
\* overlap of more than half of the shorter interval.
IsDuplicatePairOrSameEnd(a, b) ==
  /\ a.forward = b.forward
  /\ a.end = b.end \/ OverlapsSignificantly(a, b)

\* The loops of lines 200-232, as NextDuplicatePair and DominatedFrom above;
\* getBetterBindingSite (lines 240-260) is the function of the newer copy.
RECURSIVE NextDuplicatePairOrSameEnd(_, _, _, _)
NextDuplicatePairOrSameEnd(arr, dom, i, j) ==
  IF i >= Len(arr) THEN [done |-> TRUE, i |-> i, j |-> j]
  ELSE IF j = i + 1 /\ i \in dom
  THEN NextDuplicatePairOrSameEnd(arr, dom, i + 1, i + 2)
  ELSE IF j >= Len(arr) THEN NextDuplicatePairOrSameEnd(arr, dom, i + 1, i + 2)
  ELSE IF j \in dom THEN NextDuplicatePairOrSameEnd(arr, dom, i, j + 1)
  ELSE IF ~IsDuplicatePairOrSameEnd(At(arr, i), At(arr, j))
  THEN NextDuplicatePairOrSameEnd(arr, dom, i, j + 1)
  ELSE [done |-> FALSE, i |-> i, j |-> j]

RECURSIVE DominatedFromOrSameEnd(_, _, _, _)
DominatedFromOrSameEnd(arr, dom, i, j) ==
  LET nx == NextDuplicatePairOrSameEnd(arr, dom, i, j)
  IN IF nx.done THEN dom
     ELSE DominatedFromOrSameEnd(arr, dom \cup {DominatedIdx(arr, nx.i, nx.j)},
                                 nx.i, nx.j + 1)

deduplicateBindingSitesOrSameEnd(arr) ==
  IF Len(arr) <= 1 THEN arr
  ELSE FilterDominated(arr, DominatedFromOrSameEnd(arr, {}, 0, 1), 0)

\* The whole function of the older copy, on the raw arguments.
findPrimerBindingSitesResweep(primerSeq, fullSeq, maxMism, searchReverse, circular, calcTm, minBinding, detect) ==
  IF IsFalsy(primerSeq) \/ IsFalsy(fullSeq) THEN Returns(<<>>)
  ELSE
    LET primer == NormalizePrimer(primerSeq)
        target == NormalizeSequence(fullSeq)
        afterForward ==
          StrandSweep(<<>>, primer, target, maxMism, circular, TRUE, calcTm,
                      minBinding, detect)
        afterReverse ==
          IF searchReverse
          THEN StrandSweep(afterForward, primer, target, maxMism, circular,
                           FALSE, calcTm, minBinding, detect)
          ELSE afterForward
    IN IF \/ StrandSweepThrows(primer, target, maxMism, circular, TRUE,
                               calcTm, minBinding, detect)
          \/ /\ searchReverse
             /\ StrandSweepThrows(primer, target, maxMism, circular, FALSE,
                                  calcTm, minBinding, detect)
       THEN Throws
       ELSE Returns(AddIds(deduplicateBindingSitesOrSameEnd(
                      SortByStartThenOverhang(afterReverse))))

\* --------------------------------------------- the consecutive-match copy
\* The copy of findPrimerBindingSites in unnamed/part_000: it takes no
\* maxMismatches and the first mismatch ends the binding region.  Its loops
\* build the template region as the current copy does (TemplateRegion), and
\* its duplicate test is that of IsDuplicatePair.

\* Mutant of findConsecutiveBinding: the seed test of line 279 is left out.
findConsecutiveBinding_NoSeedCheck(primer, template, minBinding) ==
  IF Len(primer) # Len(template)
  THEN [isValid |-> FALSE, bindingLength |-> 0]
  ELSE IF CharAt(primer, Len(primer) - 1) # CharAt(template, Len(primer) - 1)
  THEN [isValid |-> FALSE, bindingLength |-> 0]
  ELSE [isValid |-> TRUE,
        bindingLength |-> CountFrom3Prime(primer, template, Len(primer) - 1)]

\* Lines 255-287; the loop of lines 269-276 is that of CountFrom3Prime.
findConsecutiveBinding(primer, template, minBinding) ==
  IF Len(primer) # Len(template)
  THEN [isValid |-> FALSE, bindingLength |-> 0]
  ELSE
    LET length == Len(primer)
        bindingLength == CountFrom3Prime(primer, template, length - 1)
    IN IF CharAt(primer, length - 1) # CharAt(template, length - 1)
       THEN [isValid |-> FALSE, bindingLength |-> 0]
       ELSE IF bindingLength < minBinding
       THEN [isValid |-> FALSE, bindingLength |-> 0]
       ELSE [isValid |-> TRUE, bindingLength |-> bindingLength]

\* Lines 303-336; the loop of lines 318-325 is that of CountFrom5Prime.
findConsecutiveBindingFrom5Prime(primer, template, minBinding) ==
  IF Len(primer) # Len(template)
  THEN [isValid |-> FALSE, bindingLength |-> 0]
  ELSE
    LET bindingLength == CountFrom5Prime(primer, template, 0)
    IN IF CharAt(primer, 0) # CharAt(template, 0)
       THEN [isValid |-> FALSE, bindingLength |-> 0]
       ELSE IF bindingLength < minBinding
       THEN [isValid |-> FALSE, bindingLength |-> 0]
       ELSE [isValid |-> TRUE, bindingLength |-> bindingLength]

\* The object pushed at lines 138-155 (built from line 124 on).
ConsecutiveForwardSite(primer, template, endPos, startPos, templateRegion, bindingResult, calcTm) ==
  LET primerLength == Len(primer)
      templateLength == Len(template)
      overhangLength == primerLength - bindingResult.bindingLength
  IN [start |-> JsRem(startPos + overhangLength + templateLength, templateLength),
      end |-> endPos,
      forward |-> TRUE,
      strand |-> "+",
      numMismatches |-> 0,
      mismatchPositions |-> <<>>,
      matchedSequence |-> Slice(templateRegion, overhangLength, primerLength),
      primerSequence |-> primer,
      bindingSequence |-> Slice(primer, overhangLength, primerLength),
      overhangSequence |->
        IF overhangLength > 0 THEN Slice(primer, 0, overhangLength) ELSE <<>>,
      overhangLength |-> overhangLength,
      hasOverhang |-> overhangLength > 0,
      fullPrimerMismatchPositions |-> [x \in 1..overhangLength |-> x - 1],
      reverseComplementSearched |-> <<"undefined">>,
      tm |-> TmField(calcTm, Slice(primer, overhangLength, primerLength))]

\* The object pushed at lines 216-234 (built from line 195 on).
ConsecutiveReverseSite(primer, primerRC, template, startPos, templateRegion, bindingResult, calcTm) ==
  LET primerLength == Len(primer)
      overhangLength == primerLength - bindingResult.bindingLength
  IN [start |-> startPos,
      end |-> startPos + bindingResult.bindingLength - 1,
      forward |-> FALSE,
      strand |-> "-",
      numMismatches |-> 0,
      mismatchPositions |-> <<>>,
      matchedSequence |-> Slice(templateRegion, 0, bindingResult.bindingLength),
      primerSequence |-> primer,
      bindingSequence |-> Slice(primer, overhangLength, primerLength),
      overhangSequence |->
        IF overhangLength > 0 THEN Slice(primer, 0, overhangLength) ELSE <<>>,
      overhangLength |-> overhangLength,
      hasOverhang |-> overhangLength > 0,
      fullPrimerMismatchPositions |-> [x \in 1..overhangLength |-> x - 1],
      reverseComplementSearched |-> primerRC,
      tm |-> TmField(calcTm, Slice(primer, overhangLength, primerLength))]

\* One iteration of the forward loop (lines 108-157).
ConsecutiveForwardWindow(primer, template, minBinding, circular, calcTm, endPos) ==
  LET primerLength == Len(primer)
      startPos == endPos - primerLength + 1
      templateRegion ==
        TemplateRegion(template, startPos, primerLength, Len(template))
      bindingResult == findConsecutiveBinding(primer, templateRegion, minBinding)
  IN IF startPos < 0 /\ ~circular THEN <<>>
     ELSE IF bindingResult.isValid
     THEN <<ConsecutiveForwardSite(primer, template, endPos, startPos,
                                   templateRegion, bindingResult, calcTm)>>
     ELSE <<>>

RECURSIVE ConsecutiveForwardScan(_, _, _, _, _, _)
ConsecutiveForwardScan(primer, template, minBinding, circular, calcTm, endPos) ==
  IF endPos < Len(template)
  THEN ConsecutiveForwardWindow(primer, template, minBinding, circular, calcTm,
                                endPos)
       \o ConsecutiveForwardScan(primer, template, minBinding, circular,
                                 calcTm, endPos + 1)
  ELSE <<>>

\* One iteration of the reverse loop (lines 178-236).
ConsecutiveReverseWindow(primer, template, minBinding, circular, calcTm, startPos) ==
  LET primerLength == Len(primer)
      primerRC == ReverseComplement(primer)
      endPos == startPos + primerLength - 1
      templateRegion == TemplateRegion(template, startPos, primerLength, 0)
      bindingResult ==
        findConsecutiveBindingFrom5Prime(primerRC, templateRegion, minBinding)
  IN IF endPos >= Len(template) /\ ~circular THEN <<>>
     ELSE IF bindingResult.isValid
     THEN <<ConsecutiveReverseSite(primer, primerRC, template, startPos,
                                   templateRegion, bindingResult, calcTm)>>
     ELSE <<>>

RECURSIVE ConsecutiveReverseScan(_, _, _, _, _, _)
ConsecutiveReverseScan(primer, template, minBinding, circular, calcTm, startPos) ==
  IF startPos <= Len(template) - Len(primer)
  THEN ConsecutiveReverseWindow(primer, template, minBinding, circular, calcTm,
                                startPos)
       \o ConsecutiveReverseScan(primer, template, minBinding, circular,
                                 calcTm, startPos + 1)
  ELSE <<>>

\* searchForBindingSites of the copy (lines 94-240).
searchForBindingSitesConsecutive(primer, template, forward, minBinding, circular, calcTm) ==
  IF forward
  THEN ConsecutiveForwardScan(primer, template, minBinding, circular, calcTm,
                              Len(primer) - 1)
  ELSE ConsecutiveReverseScan(primer, template, minBinding, circular, calcTm, 0)

\* getBetterBindingSite of the copy (lines 381-395): no mismatch count.
getBetterBindingSiteConsecutive(a, b) ==
  IF a.overhangLength # b.overhangLength
  THEN (IF a.overhangLength < b.overhangLength THEN a ELSE b)
  ELSE IF Len(a.bindingSequence) # Len(b.bindingSequence)
  THEN (IF Len(a.bindingSequence) > Len(b.bindingSequence) THEN a ELSE b)
  ELSE a

\* Line 369.
DominatedIdxConsecutive(arr, i, j) ==
  IF getBetterBindingSiteConsecutive(At(arr, i), At(arr, j)) = At(arr, i)
  THEN j
  ELSE i

\* The set dominated when the loops of lines 346-373 have ended.
RECURSIVE DominatedFromConsecutive(_, _, _, _)
DominatedFromConsecutive(arr, dom, i, j) ==
  LET nx == NextDuplicatePair(arr, dom, i, j)
  IN IF nx.done THEN dom
     ELSE DominatedFromConsecutive(
            arr, dom \cup {DominatedIdxConsecutive(arr, nx.i, nx.j)}, nx.i,
            nx.j + 1)

\* Lines 341-376.
deduplicateBindingSitesConsecutive(arr) ==
  IF Len(arr) <= 1 THEN arr
  ELSE FilterDominated(arr, DominatedFromConsecutive(arr, {}, 0, 1), 0)

\* The whole function of the copy (lines 25-76), on the raw arguments.
findPrimerBindingSitesConsecutive(primerSeq, fullSeq, searchReverse, circular, calcTm, minBinding) ==
  IF IsFalsy(primerSeq) \/ IsFalsy(fullSeq) THEN Returns(<<>>)
  ELSE
    LET primer == NormalizePrimer(primerSeq)
        template == NormalizeSequence(fullSeq)
        forwardResults ==
          searchForBindingSitesConsecutive(primer, template, TRUE, minBinding,
                                           circular, calcTm)
        reverseResults ==
          IF searchReverse
          THEN searchForBindingSitesConsecutive(primer, template, FALSE,
                                                minBinding, circular, calcTm)
          ELSE <<>>
    IN IF ScanThrows(calcTm, forwardResults) \/ ScanThrows(calcTm, reverseResults)
       THEN Throws
       ELSE Returns(AddIds(deduplicateBindingSitesConsecutive(
                      SortByStart(forwardResults \o reverseResults))))

\* ---------------------------------------------------------- state machine
VARIABLES
  primerSequence,       \* argument: the primer as given
  fullSequence,         \* argument: the template as given
  maxMismatches,        \* argument
  searchReverseStrand,  \* argument
  isCircular,           \* argument
  calculateTm,          \* argument: which calculator is injected
  minBindingRegion,     \* argument
  detectOverhang,       \* an option of the older copy; not destructured here
  pc,                   \* position in findPrimerBindingSites
  normalizedPrimer,
  normalizedSequence,
  results,              \* the array results of findPrimerBindingSites
  scans,                \* strands searchForBindingSites was called for
  dominated,            \* the Set dominated of deduplicateBindingSites
  di,                   \* outer loop index of deduplicateBindingSites
  dj,                   \* inner loop index
  returned,             \* the returned array
  tabs,                 \* fileTabs state: the tab objects
  tabOrder,             \* fileTabs state: the ids in display order
  activeTabId,          \* fileTabs state: an id, or "null" / "undefined"
  idsGenerated,         \* how many ids generateTabId has handed out
  payload,              \* the payload of initializeMultiTabEditor
  storage,              \* localStorage item of the editor: <<>> or <<data>>
  enabled,              \* persistToLocalStorage
  initialLoadDone,      \* the ref of useLocalStoragePersistence
  renderedTabCount      \* tabs.length as the last render saw it

args == <<primerSequence, fullSequence, maxMismatches, searchReverseStrand,
          isCircular, calculateTm, minBindingRegion, detectOverhang>>

vars == <<primerSequence, fullSequence, maxMismatches, searchReverseStrand,
          isCircular, calculateTm, minBindingRegion, detectOverhang, pc,
          normalizedPrimer, normalizedSequence, results, scans, dominated, di,
          dj, returned, tabs, tabOrder, activeTabId, idsGenerated, payload,
          storage, enabled, initialLoadDone, renderedTabCount>>

\* The variables of the multi-tab editor.
tabVars == <<tabs, tabOrder, activeTabId, idsGenerated, payload, storage,
             enabled, initialLoadDone, renderedTabCount>>

\* The variables of a call of findPrimerBindingSites, pc apart.
searchVars == <<args, normalizedPrimer, normalizedSequence, results, scans,
                dominated, di, dj, returned>>

\* initialState of the fileTabs reducer (lines 56-60), no editor mounted and
\* nothing stored.
TabsIdle ==
  /\ tabs = <<>>
  /\ tabOrder = <<>>
  /\ activeTabId = "null"
  /\ idsGenerated = 0
  /\ payload = [tabs |-> <<>>, activeTabId |-> ""]
  /\ storage = <<>>
  /\ enabled = FALSE
  /\ initialLoadDone = FALSE
  /\ renderedTabCount = 0

\* The locals of a call that has not begun.
InitLocals ==
  /\ normalizedPrimer = <<>>
  /\ normalizedSequence = <<>>
  /\ results = <<>>
  /\ scans = <<>>
  /\ dominated = {}
  /\ di = 0
  /\ dj = 1
  /\ returned = <<>>

\* A call that injects no calculator and passes no detectOverhang key (an
\* absent key reads as the older copy's default, true).
Init ==
  /\ primerSequence \in PrimerInputs
  /\ fullSequence \in TemplateInputs
  /\ maxMismatches \in MaxMismatchesInputs
  /\ searchReverseStrand \in BOOLEAN
  /\ isCircular \in BOOLEAN
  /\ calculateTm = "omitted"
  /\ minBindingRegion \in MinBindingRegionInputs
  /\ detectOverhang = TRUE
  /\ pc = "call"
  /\ InitLocals
  /\ TabsIdle

\* A call on a linear template with each calculator injected and
\* detectOverhang: false in the options object.
InitOptions ==
  /\ primerSequence \in PrimerInputs
  /\ fullSequence \in TemplateInputs
  /\ maxMismatches \in MaxMismatchesInputs
  /\ searchReverseStrand \in BOOLEAN
  /\ isCircular = FALSE
  /\ calculateTm \in TmCalculators
  /\ minBindingRegion \in MinBindingRegionInputs
  /\ detectOverhang = FALSE
  /\ pc = "call"
  /\ InitLocals
  /\ TabsIdle

\* Lines 35-37: an empty primer or template returns [] at once.
ReturnEmpty ==
  /\ pc = "call"
  /\ IsFalsy(primerSequence) \/ IsFalsy(fullSequence)
  /\ pc' = "done"
  /\ returned' = <<>>
  /\ UNCHANGED <<args, normalizedPrimer, normalizedSequence, results, scans,
                 dominated, di, dj>>
  /\ UNCHANGED tabVars

\* Mutant of Normalize: the primer is normalised in place, so the caller's
\* argument is changed by the call.
Normalize_InPlace ==
  /\ pc = "call"
  /\ ~(IsFalsy(primerSequence) \/ IsFalsy(fullSequence))
  /\ primerSequence' = NormalizePrimer(primerSequence)
  /\ normalizedPrimer' = NormalizePrimer(primerSequence)
  /\ normalizedSequence' = NormalizeSequence(fullSequence)
  /\ results' = <<>>
  /\ pc' = "forward"
  /\ UNCHANGED <<fullSequence, maxMismatches, searchReverseStrand, isCircular,
                 calculateTm, minBindingRegion, detectOverhang, scans,
                 dominated, di, dj, returned>>
  /\ UNCHANGED tabVars

\* Lines 39-41: normalise both strings.
Normalize ==
  /\ pc = "call"
  /\ ~(IsFalsy(primerSequence) \/ IsFalsy(fullSequence))
  /\ normalizedPrimer' = NormalizePrimer(primerSequence)
  /\ normalizedSequence' = NormalizeSequence(fullSequence)
  /\ results' = <<>>
  /\ pc' = "forward"
  /\ UNCHANGED <<args, scans, dominated, di, dj, returned>>
  /\ UNCHANGED tabVars

\* Lines 44-53: the forward strand is always searched.  An exception of
\* calculateTm (line 163) ends the call: nothing is pushed and nothing is
\* returned.
SearchForward ==
  /\ pc = "forward"
  /\ LET forwardResults ==
           searchForBindingSites(normalizedPrimer, normalizedSequence, TRUE,
                                 maxMismatches, minBindingRegion, isCircular,
                                 calculateTm)
     IN IF ScanThrows(calculateTm, forwardResults)
        THEN /\ pc' = "threw"
             /\ UNCHANGED results
        ELSE /\ pc' = IF searchReverseStrand THEN "reverse" ELSE "sort"
             /\ results' = results \o forwardResults
  /\ scans' = Append(scans, "+")
  /\ UNCHANGED <<args, normalizedPrimer, normalizedSequence, dominated, di, dj,
                 returned>>
  /\ UNCHANGED tabVars

\* Lines 56-67: the reverse strand, when asked for; line 262 calls
\* calculateTm as line 163 does.
SearchReverse ==
  /\ pc = "reverse"
  /\ LET reverseResults ==
           searchForBindingSites(normalizedPrimer, normalizedSequence, FALSE,
                                 maxMismatches, minBindingRegion, isCircular,
                                 calculateTm)
     IN IF ScanThrows(calculateTm, reverseResults)
        THEN /\ pc' = "threw"
             /\ UNCHANGED results
        ELSE /\ pc' = "sort"
             /\ results' = results \o reverseResults
  /\ scans' = Append(scans, "-")
  /\ UNCHANGED <<args, normalizedPrimer, normalizedSequence, dominated, di, dj,
                 returned>>
  /\ UNCHANGED tabVars

\* Line 70, and the entry of deduplicateBindingSites.
SortResults ==
  /\ pc = "sort"
  /\ results' = SortByStart(results)
  /\ dominated' = {}
  /\ di' = 0
  /\ dj' = 1
  /\ pc' = "dedup"
  /\ UNCHANGED <<args, normalizedPrimer, normalizedSequence, scans, returned>>
  /\ UNCHANGED tabVars

\* Lines 425-452: run the loops up to the next pair of duplicates and mark
\* its loser.
DedupMark ==
  /\ pc = "dedup"
  /\ Len(results) > 1
  /\ LET nx == NextDuplicatePair(results, dominated, di, dj)
     IN /\ ~nx.done
        /\ dominated' = dominated \cup {DominatedIdx(results, nx.i, nx.j)}
        /\ di' = nx.i
        /\ dj' = nx.j + 1
  /\ UNCHANGED <<args, pc, normalizedPrimer, normalizedSequence, results, scans,
                 returned>>
  /\ UNCHANGED tabVars

\* Lines 421, 454 and 76-79: the loops have ended (or were never entered);
\* filter, add the ids and return.
ReturnResults ==
  /\ pc = "dedup"
  /\ \/ Len(results) <= 1
     \/ NextDuplicatePair(results, dominated, di, dj).done
  /\ returned' = AddIds(FilterDominated(results, dominated, 0))
  /\ pc' = "done"
  /\ UNCHANGED <<args, normalizedPrimer, normalizedSequence, results, scans,
                 dominated, di, dj>>
  /\ UNCHANGED tabVars

Next ==
  \/ ReturnEmpty
  \/ Normalize
  \/ SearchForward
  \/ SearchReverse
  \/ SortResults
  \/ DedupMark
  \/ ReturnResults

Spec == Init /\ [][Next]_vars

SpecOptions == InitOptions /\ [][Next]_vars

\* The call as one function of its arguments.
Outcome ==
  findPrimerBindingSites(primerSequence, fullSequence, maxMismatches,
                         searchReverseStrand, isCircular, calculateTm,
                         minBindingRegion)

TypeOK ==
  /\ pc \in {"call", "forward", "reverse", "sort", "dedup", "done", "threw"}
  /\ dominated \subseteq 0..(Len(results) - 1)
  /\ pc = "done" => Outcome = Returns(returned)
  /\ pc = "threw" => Outcome = Throws

\* ------------------------------------------ state machine of the older copy
\* One call of the findPrimerBindingSites of demo-dist/ove/MultiTabEditor/
\* index.d.ts, on the same variables; its positions are the old_ values of pc.
InitResweep ==
  /\ primerSequence \in PrimerInputs
  /\ fullSequence \in TemplateInputs
  /\ maxMismatches \in MaxMismatchesInputs
  /\ searchReverseStrand \in BOOLEAN
  /\ isCircular \in BOOLEAN
  /\ calculateTm = "omitted"
  /\ minBindingRegion \in MinBindingRegionInputs
  /\ detectOverhang \in BOOLEAN
  /\ pc = "old_call"
  /\ InitLocals
  /\ TabsIdle

\* Lines 61-63.
ResweepReturnEmpty ==
  /\ pc = "old_call"
  /\ IsFalsy(primerSequence) \/ IsFalsy(fullSequence)
  /\ pc' = "done"
  /\ returned' = <<>>
  /\ UNCHANGED <<args, normalizedPrimer, normalizedSequence, results, scans,
                 dominated, di, dj>>
  /\ UNCHANGED tabVars

\* Lines 65-67.
ResweepNormalize ==
  /\ pc = "old_call"
  /\ ~(IsFalsy(primerSequence) \/ IsFalsy(fullSequence))
  /\ normalizedPrimer' = NormalizePrimer(primerSequence)
  /\ normalizedSequence' = NormalizeSequence(fullSequence)
  /\ results' = <<>>
  /\ pc' = "old_forward"
  /\ UNCHANGED <<args, scans, dominated, di, dj, returned>>
  /\ UNCHANGED tabVars

\* Lines 70-115: the whole primer, then each shorter binding region, on the
\* forward strand.
ResweepForward ==
  /\ pc = "old_forward"
  /\ IF StrandSweepThrows(normalizedPrimer, normalizedSequence, maxMismatches,
                          isCircular, TRUE, calculateTm, minBindingRegion,
                          detectOverhang)
     THEN /\ pc' = "threw"
          /\ UNCHANGED results
     ELSE /\ pc' = IF searchReverseStrand THEN "old_reverse" ELSE "old_sort"
          /\ results' = StrandSweep(results, normalizedPrimer,
                                    normalizedSequence, maxMismatches,
                                    isCircular, TRUE, calculateTm,
                                    minBindingRegion, detectOverhang)
  /\ scans' = Append(scans, "+")
  /\ UNCHANGED <<args, normalizedPrimer, normalizedSequence, dominated, di, dj,
                 returned>>
  /\ UNCHANGED tabVars

\* Lines 117-165: the same for the reverse complement.
ResweepReverse ==
  /\ pc = "old_reverse"
  /\ IF StrandSweepThrows(normalizedPrimer, normalizedSequence, maxMismatches,
                          isCircular, FALSE, calculateTm, minBindingRegion,
                          detectOverhang)
     THEN /\ pc' = "threw"
          /\ UNCHANGED results
     ELSE /\ pc' = "old_sort"
          /\ results' = StrandSweep(results, normalizedPrimer,
                                    normalizedSequence, maxMismatches,
                                    isCircular, FALSE, calculateTm,
                                    minBindingRegion, detectOverhang)
  /\ scans' = Append(scans, "-")
  /\ UNCHANGED <<args, normalizedPrimer, normalizedSequence, dominated, di, dj,
                 returned>>
  /\ UNCHANGED tabVars

\* Lines 169-172, and the entry of deduplicateBindingSites.
ResweepSort ==
  /\ pc = "old_sort"
  /\ results' = SortByStartThenOverhang(results)
  /\ dominated' = {}
  /\ di' = 0
  /\ dj' = 1
  /\ pc' = "old_dedup"
  /\ UNCHANGED <<args, normalizedPrimer, normalizedSequence, scans, returned>>
  /\ UNCHANGED tabVars

\* Lines 200-232: up to the next pair of duplicates, and mark its loser.
ResweepDedupMark ==
  /\ pc = "old_dedup"
  /\ Len(results) > 1
  /\ LET nx == NextDuplicatePairOrSameEnd(results, dominated, di, dj)
     IN /\ ~nx.done
        /\ dominated' = dominated \cup {DominatedIdx(results, nx.i, nx.j)}
        /\ di' = nx.i
        /\ dj' = nx.j + 1
  /\ UNCHANGED <<args, pc, normalizedPrimer, normalizedSequence, results, scans,
                 returned>>
  /\ UNCHANGED tabVars

\* Lines 196, 234 and 178-182.
ResweepReturn ==
  /\ pc = "old_dedup"
  /\ \/ Len(results) <= 1
     \/ NextDuplicatePairOrSameEnd(results, dominated, di, dj).done
  /\ returned' = AddIds(FilterDominated(results, dominated, 0))
  /\ pc' = "done"
  /\ UNCHANGED <<args, normalizedPrimer, normalizedSequence, results, scans,
                 dominated, di, dj>>
  /\ UNCHANGED tabVars

NextResweep ==
  \/ ResweepReturnEmpty
  \/ ResweepNormalize
  \/ ResweepForward
  \/ ResweepReverse
  \/ ResweepSort
  \/ ResweepDedupMark
  \/ ResweepReturn

SpecResweep == InitResweep /\ [][NextResweep]_vars

OutcomeResweep ==
  findPrimerBindingSitesResweep(primerSequence, fullSequence, maxMismatches,
                                searchReverseStrand, isCircular, calculateTm,
                                minBindingRegion, detectOverhang)

TypeOKResweep ==
  /\ pc \in {"old_call", "old_forward", "old_reverse", "old_sort", "old_dedup",
              "done", "threw"}
  /\ dominated \subseteq 0..(Len(results) - 1)
  /\ pc = "done" => OutcomeResweep = Returns(returned)
  /\ pc = "threw" => OutcomeResweep = Throws

\* ------------------------------------------------- the ranking on its own
\* getBetterBindingSite applied to every ordered pair of three candidates
\* whose three ranking fields vary independently.  A candidate here carries
\* the fields the function reads, and start, its place in the list, which
\* tells equally ranked candidates apart.
MaxRankValue == 2

RankingSites ==
  [numMismatches : 0..MaxRankValue,
   overhangLength : 0..MaxRankValue,
   bindingSequence : {[x \in 1..n |-> "A"] : n \in 0..MaxRankValue},
   start : 1..3]

InitRanking ==
  /\ primerSequence = <<>>
  /\ fullSequence = <<>>
  /\ maxMismatches = 0
  /\ searchReverseStrand = FALSE
  /\ isCircular = FALSE
  /\ calculateTm = "omitted"
  /\ minBindingRegion = 1
  /\ detectOverhang = TRUE
  /\ pc = "rank"
  /\ normalizedPrimer = <<>>
  /\ normalizedSequence = <<>>
  /\ results \in {r \in [1..3 -> RankingSites] : \A x \in 1..3 : r[x].start = x}
  /\ scans = <<>>
  /\ dominated = {}
  /\ di = 0
  /\ dj = 1
  /\ returned = <<>>
  /\ TabsIdle

\* The six calls on the candidates a, b, c = results[1], results[2],
\* results[3]: (a, b), (b, a), (b, c), (c, b), (a, c), (c, a).
RankPairs ==
  /\ pc = "rank"
  /\ returned' = << getBetterBindingSite(results[1], results[2]),
                    getBetterBindingSite(results[2], results[1]),
                    getBetterBindingSite(results[2], results[3]),
                    getBetterBindingSite(results[3], results[2]),
                    getBetterBindingSite(results[1], results[3]),
                    getBetterBindingSite(results[3], results[1]) >>
  /\ pc' = "ranked"
  /\ UNCHANGED <<args, normalizedPrimer, normalizedSequence, results, scans,
                 dominated, di, dj>>
  /\ UNCHANGED tabVars

NextRanking == RankPairs

SpecRanking == InitRanking /\ [][NextRanking]_vars

\* ------------------------------------------------------ fileTabs reducer
\* redux/fileTabs.js.  An id is a string; "undefined" is an absent id and
\* "null" the null of initialState.  A tab object keeps id, fileName and
\* isModified (filePath and the two timestamps take no part in any test).
MaxTabs == 3
MaxGeneratedIds == 4

\* What shortid.generate() hands out, call after call: never the same twice.
GeneratedIds == <<"g1", "g2", "g3", "g4", "g5", "g6", "g7", "g8">>

\* generateTabId(), when n ids were generated before.
generateTabId(n) == GeneratedIds[n + 1]

\* !id for an id or a file name.
IsFalsyId(id) == id \in {"", "undefined", "null"}

\* x || y
OrElse(x, y) == IF IsFalsyId(x) THEN y ELSE x

\* The fileTabs state of the variables.
TabState == [tabs |-> tabs, tabOrder |-> tabOrder, activeTabId |-> activeTabId]

\* arr.indexOf(x), -1 when absent.
RECURSIVE IndexOfFrom(_, _, _)
IndexOfFrom(arr, x, i) ==
  IF i >= Len(arr) THEN 0 - 1
  ELSE IF At(arr, i) = x THEN i
  ELSE IndexOfFrom(arr, x, i + 1)

IndexOf(arr, x) == IndexOfFrom(arr, x, 0)

\* state.tabs.find(t => t.id === tabId) is not undefined.
HasTab(st, tabId) == \E x \in 1..Len(st.tabs) : st.tabs[x].id = tabId

\* [addFileTab] (lines 68-85); gen is what generateTabId() would return.
addFileTab(st, pl, gen) ==
  LET tabId == OrElse(pl.id, gen)
      newTab == [id |-> tabId, fileName |-> OrElse(pl.fileName, "Untitled"),
                 isModified |-> FALSE]
  IN [tabs |-> Append(st.tabs, newTab),
      tabOrder |-> Append(st.tabOrder, tabId),
      activeTabId |-> tabId]

\* Mutant of closeFileTab: closing the active tab leaves activeTabId alone
\* while other tabs remain.
closeFileTab_KeepsClosedActive(st, tabId) ==
  LET newTabs == SelectSeq(st.tabs, LAMBDA t : t.id # tabId)
      newOrder == SelectSeq(st.tabOrder, LAMBDA id : id # tabId)
  IN [tabs |-> newTabs, tabOrder |-> newOrder,
      activeTabId |-> IF Len(newTabs) = 0 THEN "null" ELSE st.activeTabId]

\* [closeFileTab] (lines 87-113).
closeFileTab(st, tabId) ==
  LET newTabs == SelectSeq(st.tabs, LAMBDA t : t.id # tabId)
      newOrder == SelectSeq(st.tabOrder, LAMBDA id : id # tabId)
      closedIndex == IndexOf(st.tabOrder, tabId)
      newActiveId ==
        IF st.activeTabId = tabId /\ Len(newTabs) > 0
        THEN (IF closedIndex > 0 THEN At(st.tabOrder, closedIndex - 1)
              ELSE IF Len(newOrder) > 0 THEN At(newOrder, 0)
              ELSE st.activeTabId)
        ELSE IF Len(newTabs) = 0 THEN "null"
        ELSE st.activeTabId
  IN [tabs |-> newTabs, tabOrder |-> newOrder, activeTabId |-> newActiveId]

\* [setActiveFileTab] (lines 115-129).
setActiveFileTab(st, tabId) ==
  IF ~HasTab(st, tabId) THEN st
  ELSE [tabs |-> st.tabs, tabOrder |-> st.tabOrder, activeTabId |-> tabId]

\* [updateFileTabOrder] (lines 131-134).
updateFileTabOrder(st, newOrder) ==
  [tabs |-> st.tabs, tabOrder |-> newOrder, activeTabId |-> st.activeTabId]

\* [renameFileTab] (lines 136-141).
renameFileTab(st, tabId, fileName) ==
  [tabs |-> [x \in 1..Len(st.tabs) |->
               IF st.tabs[x].id = tabId
               THEN [id |-> st.tabs[x].id, fileName |-> fileName,
                     isModified |-> st.tabs[x].isModified]
               ELSE st.tabs[x]],
   tabOrder |-> st.tabOrder,
   activeTabId |-> st.activeTabId]

\* [setFileTabModified] (lines 143-148).
setFileTabModified(st, tabId, isModified) ==
  [tabs |-> [x \in 1..Len(st.tabs) |->
               IF st.tabs[x].id = tabId
               THEN [id |-> st.tabs[x].id, fileName |-> st.tabs[x].fileName,
                     isModified |-> isModified]
               ELSE st.tabs[x]],
   tabOrder |-> st.tabOrder,
   activeTabId |-> st.activeTabId]

\* How many of the first k payload tabs carry no id: each makes one call of
\* generateTabId in a map over the payload tabs.
RECURSIVE IdlessBefore(_, _)
IdlessBefore(initialTabs, k) ==
  IF k = 0 THEN 0
  ELSE IdlessBefore(initialTabs, k - 1)
       + (IF IsFalsyId(initialTabs[k].id) THEN 1 ELSE 0)

\* initialTabs.map(tab => tab.id || generateTabId()), when n ids were
\* generated before the map began.
MapIds(initialTabs, n) ==
  [x \in 1..Len(initialTabs) |->
     IF IsFalsyId(initialTabs[x].id)
     THEN generateTabId(n + IdlessBefore(initialTabs, x - 1))
     ELSE initialTabs[x].id]

\* [initializeMultiTabEditor] (lines 150-174), when n ids were generated
\* before: the map of tabs runs first, the map of tabOrder after it.
initializeMultiTabEditor(st, pl, n) ==
  IF Len(st.tabs) > 0 THEN st
  ELSE IF Len(pl.tabs) = 0 THEN st
  ELSE
    LET tabIds == MapIds(pl.tabs, n)
        orderIds == MapIds(pl.tabs, n + IdlessBefore(pl.tabs, Len(pl.tabs)))
    IN [tabs |-> [x \in 1..Len(pl.tabs) |->
                    [id |-> tabIds[x],
                     fileName |-> OrElse(pl.tabs[x].fileName, "Untitled"),
                     isModified |-> FALSE]],
        tabOrder |-> orderIds,
        activeTabId |->
          IF IsFalsyId(pl.activeTabId) THEN pl.tabs[1].id ELSE pl.activeTabId]

\* The calls of generateTabId one initializeMultiTabEditor makes.
IdsOfInitialize(st, pl) ==
  IF Len(st.tabs) > 0 \/ Len(pl.tabs) = 0 THEN 0
  ELSE 2 * IdlessBefore(pl.tabs, Len(pl.tabs))

\* [restoreMultiTabState] (lines 176-181); the payload built by the restore
\* effect always carries its three keys.
restoreMultiTabState(st, pl) ==
  [tabs |-> pl.tabs, tabOrder |-> pl.tabOrder,
   activeTabId |-> OrElse(pl.activeTabId, "null")]

\* getOrderedFileTabs (lines 207-212): the tabs tabOrder names, in its order.
getOrderedFileTabs(st) ==
  LET found == SelectSeq(st.tabOrder, LAMBDA id : HasTab(st, id))
  IN [x \in 1..Len(found) |->
        st.tabs[1 + IndexOf([y \in 1..Len(st.tabs) |-> st.tabs[y].id], found[x])]]

\* getActiveFileTab (lines 217-220): the tab, or none, as a list.
getActiveFileTab(st) == SelectSeq(st.tabs, LAMBDA t : t.id = st.activeTabId)

\* newOrder of handleDragEnd (lines 361-363): the element at source is
\* removed and put back at destination.
DragOrder(order, source, destination) ==
  LET removed == At(order, source)
      without == SubSeq(order, 1, source) \o SubSeq(order, source + 2, Len(order))
  IN SubSeq(without, 1, destination) \o <<removed>>
     \o SubSeq(without, destination + 1, Len(without))

\* The state is written back to the variables.
SetTabState(st) ==
  /\ tabs' = st.tabs
  /\ tabOrder' = st.tabOrder
  /\ activeTabId' = st.activeTabId

FileNames == {"", "a.gb"}

\* The ids an action may be dispatched with: the generated ones and one that
\* no tab has.
DispatchableIds == {GeneratedIds[x] : x \in 1..MaxGeneratedIds} \cup {"nowhere"}

\* The reducer on its own: from initialState, any dispatch.
InitTabs ==
  /\ primerSequence = <<>>
  /\ fullSequence = <<>>
  /\ maxMismatches = 0
  /\ searchReverseStrand = FALSE
  /\ isCircular = FALSE
  /\ calculateTm = "omitted"
  /\ minBindingRegion = 1
  /\ detectOverhang = TRUE
  /\ pc = "tabs"
  /\ InitLocals
  /\ TabsIdle

\* dispatch(addFileTab({ id, fileName })) with a fresh id, as handleImport
\* and the initial-tab effect do, or with no id.
AddFileTab ==
  /\ pc = "tabs"
  /\ Len(tabs) < MaxTabs
  /\ idsGenerated < MaxGeneratedIds
  /\ \E withId \in BOOLEAN, fileName \in FileNames :
       SetTabState(addFileTab(TabState,
                              [id |-> IF withId
                                      THEN generateTabId(idsGenerated)
                                      ELSE "undefined",
                               fileName |-> fileName],
                              generateTabId(idsGenerated)))
  /\ idsGenerated' = idsGenerated + 1
  /\ UNCHANGED <<pc, searchVars, payload, storage, enabled, initialLoadDone,
                 renderedTabCount>>

CloseFileTab ==
  /\ pc = "tabs"
  /\ \E tabId \in DispatchableIds : SetTabState(closeFileTab(TabState, tabId))
  /\ UNCHANGED <<pc, searchVars, idsGenerated, payload, storage, enabled,
                 initialLoadDone, renderedTabCount>>

SetActiveFileTab ==
  /\ pc = "tabs"
  /\ \E tabId \in DispatchableIds :
       SetTabState(setActiveFileTab(TabState, tabId))
  /\ UNCHANGED <<pc, searchVars, idsGenerated, payload, storage, enabled,
                 initialLoadDone, renderedTabCount>>

RenameFileTab ==
  /\ pc = "tabs"
  /\ \E tabId \in DispatchableIds, fileName \in FileNames :
       SetTabState(renameFileTab(TabState, tabId, fileName))
  /\ UNCHANGED <<pc, searchVars, idsGenerated, payload, storage, enabled,
                 initialLoadDone, renderedTabCount>>

SetFileTabModified ==
  /\ pc = "tabs"
  /\ \E tabId \in DispatchableIds, isModified \in BOOLEAN :
       SetTabState(setFileTabModified(TabState, tabId, isModified))
  /\ UNCHANGED <<pc, searchVars, idsGenerated, payload, storage, enabled,
                 initialLoadDone, renderedTabCount>>

\* handleDragEnd (lines 357-369) with a destination that differs from the
\* source.
HandleDragEnd ==
  /\ pc = "tabs"
  /\ \E source, destination \in 0..(Len(tabOrder) - 1) :
       /\ source # destination
       /\ SetTabState(updateFileTabOrder(
                        TabState, DragOrder(tabOrder, source, destination)))
  /\ UNCHANGED <<pc, searchVars, idsGenerated, payload, storage, enabled,
                 initialLoadDone, renderedTabCount>>

NextTabs ==
  \/ AddFileTab
  \/ CloseFileTab
  \/ SetActiveFileTab
  \/ RenameFileTab
  \/ SetFileTabModified
  \/ HandleDragEnd

SpecTabs == InitTabs /\ [][NextTabs]_vars

\* --------------------------------------------- initializeMultiTabEditor
\* One dispatch of initializeMultiTabEditor on initialState.  A payload tab
\* carries an id or none, and the payload an activeTabId or none.
MaxPayloadTabs == 2

PayloadIds == {"undefined", "a", "b"}

PayloadTabs == [id : PayloadIds, fileName : FileNames]

InitializePayloads ==
  [tabs : UNION {[1..k -> PayloadTabs] : k \in 0..MaxPayloadTabs},
   activeTabId : PayloadIds]

InitInitialize ==
  /\ primerSequence = <<>>
  /\ fullSequence = <<>>
  /\ maxMismatches = 0
  /\ searchReverseStrand = FALSE
  /\ isCircular = FALSE
  /\ calculateTm = "omitted"
  /\ minBindingRegion = 1
  /\ detectOverhang = TRUE
  /\ pc = "initialize"
  /\ InitLocals
  /\ tabs = <<>>
  /\ tabOrder = <<>>
  /\ activeTabId = "null"
  /\ idsGenerated = 0
  /\ payload \in InitializePayloads
  /\ storage = <<>>
  /\ enabled = FALSE
  /\ initialLoadDone = FALSE
  /\ renderedTabCount = 0

InitializeMultiTabEditor ==
  /\ pc = "initialize"
  /\ SetTabState(initializeMultiTabEditor(TabState, payload, idsGenerated))
  /\ idsGenerated' = idsGenerated + IdsOfInitialize(TabState, payload)
  /\ pc' = "initialized"
  /\ UNCHANGED <<searchVars, payload, storage, enabled, initialLoadDone,
                 renderedTabCount>>

NextInitialize == InitializeMultiTabEditor

SpecInitialize == InitInitialize /\ [][NextInitialize]_vars

\* ------------------------------------------------- mount of MultiTabEditor
\* The first commit of MultiTabEditor (MultiTabEditor/FileTab.js lines
\* 110-169) with useLocalStoragePersistence (unnamed/part_002 lines 20-68).
\* A render reads tabs from the store; the effects of a commit run one after
\* the other in the order the hooks were called, each with the values of that
\* render, and a dispatch made by an effect is seen by the next render only.
\* The stored item is held parsed: it was written by JSON.stringify from a
\* fileTabs state of strings and booleans.
MaxStoredTabs == 2

StoredIds == {"s1", "s2"}

StoredTabs == [id : StoredIds, fileName : {"Untitled", "a.gb"}, isModified : BOOLEAN]

\* What saveToLocalStorage can have written: a state with its tabs, the ids
\* all different, tabOrder a permutation of them and one of them active.
StoredStates ==
  {d \in [tabs : UNION {[1..k -> StoredTabs] : k \in 1..MaxStoredTabs},
          tabOrder : UNION {[1..k -> StoredIds] : k \in 1..MaxStoredTabs},
          activeTabId : StoredIds] :
     /\ Len(d.tabOrder) = Len(d.tabs)
     /\ \A x, y \in 1..Len(d.tabs) : x # y => d.tabs[x].id # d.tabs[y].id
     /\ {d.tabOrder[x] : x \in 1..Len(d.tabOrder)}
          = {d.tabs[x].id : x \in 1..Len(d.tabs)}
     /\ \E x \in 1..Len(d.tabs) : d.tabs[x].id = d.activeTabId}

InitMount ==
  /\ primerSequence = <<>>
  /\ fullSequence = <<>>
  /\ maxMismatches = 0
  /\ searchReverseStrand = FALSE
  /\ isCircular = FALSE
  /\ calculateTm = "omitted"
  /\ minBindingRegion = 1
  /\ detectOverhang = TRUE
  /\ pc = "render"
  /\ InitLocals
  /\ tabs = <<>>
  /\ tabOrder = <<>>
  /\ activeTabId = "null"
  /\ idsGenerated = 0
  /\ payload = [tabs |-> <<>>, activeTabId |-> ""]
  /\ storage \in {<<>>} \cup {<<d>> : d \in StoredStates}
  /\ enabled \in BOOLEAN
  /\ initialLoadDone = FALSE
  /\ renderedTabCount = 0

\* The function body runs (FileTab.js lines 124-141): tabs is read from the
\* store.
Render ==
  /\ pc = "render"
  /\ renderedTabCount' = Len(tabs)
  /\ pc' = "effect_restore"
  /\ UNCHANGED <<searchVars, tabs, tabOrder, activeTabId, idsGenerated,
                 payload, storage, enabled, initialLoadDone>>

\* The restore effect (part_002 lines 32-68).  Its dependencies do not change
\* after the first commit; a later run would return at its first line, as
\* this does.
RestoreEffect ==
  /\ pc = "effect_restore"
  /\ IF ~enabled \/ initialLoadDone
     THEN UNCHANGED <<initialLoadDone, tabs, tabOrder, activeTabId>>
     ELSE /\ initialLoadDone' = TRUE
          /\ IF storage = <<>>
             THEN UNCHANGED <<tabs, tabOrder, activeTabId>>
             ELSE IF Len(storage[1].tabs) = 0
             THEN UNCHANGED <<tabs, tabOrder, activeTabId>>
             ELSE SetTabState(restoreMultiTabState(TabState, storage[1]))
  /\ pc' = "effect_initial_tab"
  /\ UNCHANGED <<searchVars, idsGenerated, payload, storage, enabled,
                 renderedTabCount>>

\* The initial-tab effect (FileTab.js lines 143-166), with the tabs.length of
\* the render it belongs to.
InitialTabEffect ==
  /\ pc = "effect_initial_tab"
  /\ IF renderedTabCount = 0
     THEN /\ SetTabState(addFileTab(TabState,
                                    [id |-> generateTabId(idsGenerated),
                                     fileName |-> "Untitled"],
                                    generateTabId(idsGenerated + 1)))
          /\ idsGenerated' = idsGenerated + 1
     ELSE UNCHANGED <<tabs, tabOrder, activeTabId, idsGenerated>>
  /\ pc' = "committed"
  /\ UNCHANGED <<searchVars, payload, storage, enabled, initialLoadDone,
                 renderedTabCount>>

\* The store changed during the effects: the component renders again.
Rerender ==
  /\ pc = "committed"
  /\ renderedTabCount # Len(tabs)
  /\ pc' = "render"
  /\ UNCHANGED <<searchVars, tabVars>>

NextMount ==
  \/ Render
  \/ RestoreEffect
  \/ InitialTabEffect
  \/ Rerender

SpecMount == InitMount /\ [][NextMount]_vars

\* ------------------------------------------------- vocabulary of the claims
Done == pc = "done"

Indices == 0..(Len(results) - 1)

\* The candidate appears in the returned list.
InOutput(site) ==
  \E x \in 1..Len(returned) :
    /\ returned[x].forward = site.forward
    /\ returned[x].start = site.start
    /\ returned[x].end = site.end

\* The ranking of the dominance filter as the specification words it: fewer
\* mismatches, then shorter overhang, then longer binding sequence.
RanksBetter(a, b) ==
  \/ a.numMismatches < b.numMismatches
  \/ /\ a.numMismatches = b.numMismatches
     /\ a.overhangLength < b.overhangLength
  \/ /\ a.numMismatches = b.numMismatches
     /\ a.overhangLength = b.overhangLength
     /\ Len(a.bindingSequence) > Len(b.bindingSequence)

\* Same strand, and the intervals overlap by more than half of the shorter.
Overlap(a, b) == Max(0, Min(a.end, b.end) - Max(a.start, b.start) + 1)
ShorterLength(a, b) == Min(a.end - a.start + 1, b.end - b.start + 1)
Duplicates(a, b) ==
  a.forward = b.forward /\ 2 * Overlap(a, b) > ShorterLength(a, b)

\* No third candidate is a duplicate of either member of the pair.
IsolatedPair(i, j) ==
  \A k \in Indices \ {i, j} :
    /\ ~Duplicates(At(results, k), At(results, i))
    /\ ~Duplicates(At(results, k), At(results, j))

\* seq occurs in the template at the linear offset p.
OccursLinearlyAt(seq, template, p) ==
  /\ p >= 0
  /\ p + Len(seq) <= Len(template)
  /\ \A x \in 0..(Len(seq) - 1) : CharAt(seq, x) = CharAt(template, p + x)

\* ---------------------------------------------------------------------- C1
\* C1 (as claimed): of any two scan candidates on one strand that overlap by
\* more than 50% of the shorter interval, exactly one is in the output, and it
\* is the one the ranking prefers.
C1_ExactlyOneBetterSurvives ==
  Done =>
    \A i, j \in Indices :
      (i < j /\ Duplicates(At(results, i), At(results, j))) =>
        LET a == At(results, i)
            b == At(results, j)
        IN /\ InOutput(a) # InOutput(b)
           /\ InOutput(a) => ~RanksBetter(b, a)
           /\ InOutput(b) => ~RanksBetter(a, b)

\* C1 (amended): of two such candidates at most one is in the output; and
\* when no third candidate is a duplicate of either, exactly one is in the
\* output, the better ranked one, or the earlier one when the ranks tie.
C1_AtMostOneAndIsolatedBetter ==
  Done =>
    \A i, j \in Indices :
      (i < j /\ Duplicates(At(results, i), At(results, j))) =>
        LET a == At(results, i)
            b == At(results, j)
        IN /\ ~(InOutput(a) /\ InOutput(b))
           /\ IsolatedPair(i, j) =>
                /\ InOutput(a) # InOutput(b)
                /\ InOutput(b) <=> RanksBetter(b, a)

C1_Witness ==
  /\ Done
  /\ \E i, j \in Indices :
       /\ i < j
       /\ Duplicates(At(results, i), At(results, j))
       /\ IsolatedPair(i, j)
       /\ RanksBetter(At(results, j), At(results, i))
       /\ InOutput(At(results, j))
  /\ \E i, j \in Indices :
       /\ i < j
       /\ Duplicates(At(results, i), At(results, j))
       /\ ~IsolatedPair(i, j)

\* ---------------------------------------------------------------------- C2
\* The filter's loops run over the candidates in the order given by order (a
\* sequence of the indices of arr); ties go to the candidate that is earlier
\* in arr.  The result is the set of indices of arr left unmarked.
LoserInOrder(arr, order, x, y) ==
  LET oi == order[x + 1]
      oj == order[y + 1]
  IN IF oi < oj
     THEN (IF getBetterBindingSite(At(arr, oi), At(arr, oj)) = At(arr, oi)
           THEN y ELSE x)
     ELSE (IF getBetterBindingSite(At(arr, oj), At(arr, oi)) = At(arr, oj)
           THEN x ELSE y)

RECURSIVE DominatedInOrder(_, _, _, _, _)
DominatedInOrder(arr, order, dom, i, j) ==
  LET permuted == [x \in 1..Len(arr) |-> At(arr, order[x])]
      nx == NextDuplicatePair(permuted, dom, i, j)
  IN IF nx.done THEN dom
     ELSE DominatedInOrder(arr, order,
                           dom \cup {LoserInOrder(arr, order, nx.i, nx.j)},
                           nx.i, nx.j + 1)

SurvivorsInOrder(arr, order) ==
  {order[x + 1] : x \in (0..(Len(arr) - 1)) \ DominatedInOrder(arr, order, {}, 0, 1)}

Orders(n) ==
  {f \in [1..n -> 0..(n - 1)] : \A x, y \in 1..n : x # y => f[x] # f[y]}

\* C2 (as claimed): the surviving set does not depend on the order in which
\* the pairs are traversed: every permutation of the list leaves the same
\* candidates as the i < j traversal of the code.
C2_OrderInsensitive ==
  (Done /\ Len(results) > 1) =>
    \A order \in Orders(Len(results)) :
      SurvivorsInOrder(results, order) = Indices \ dominated

\* ---------------------------------------------------------------------- C3
\* The k bases at the primer's 3' end pair exactly with the template.
SeedMatches(site, k) ==
  LET len == Len(normalizedPrimer)
      primerRC == ReverseComplement(normalizedPrimer)
  IN /\ k <= len
     /\ IF site.forward
        THEN \A x \in 0..(k - 1) :
               CharAt(normalizedPrimer, len - k + x)
                 = CharAt(normalizedSequence, site.end - k + 1 + x)
        ELSE \A x \in 0..(k - 1) :
               CharAt(primerRC, x) = CharAt(normalizedSequence, site.start + x)

\* C3: every returned site, on either strand and for any maxMismatches, has
\* its minBindingRegion 3'-terminal primer bases matching the template exactly.
C3_SeedFloor ==
  Done => \A x \in 1..Len(returned) : SeedMatches(returned[x], minBindingRegion)

C3_Witness ==
  /\ Done
  /\ minBindingRegion = 2
  /\ maxMismatches = 2
  /\ \E x \in 1..Len(returned) :
       returned[x].forward /\ returned[x].numMismatches > 0
  /\ \E x \in 1..Len(returned) :
       ~returned[x].forward /\ returned[x].numMismatches > 0

\* ---------------------------------------------------------------------- C4
\* The forward window ending at endPos, and the reverse window starting at
\* startPos, pair the primer's 3'-terminal base with a different base.
ForwardWindows ==
  {e \in 0..(Len(normalizedSequence) - 1) : e >= Len(normalizedPrimer) - 1}
ReverseWindows ==
  {st \in 0..(Len(normalizedSequence) - 1) :
     st <= Len(normalizedSequence) - Len(normalizedPrimer)}

Forward3PrimeMismatch(endPos) ==
  CharAt(normalizedPrimer, Len(normalizedPrimer) - 1)
    # CharAt(normalizedSequence, endPos)
Reverse3PrimeMismatch(startPos) ==
  ComplementChar(CharAt(normalizedPrimer, Len(normalizedPrimer) - 1))
    # CharAt(normalizedSequence, startPos)

\* Every base of the window but the 3'-terminal one matches.
ForwardOnly3PrimeDiffers(endPos) ==
  /\ Forward3PrimeMismatch(endPos)
  /\ \A x \in 0..(Len(normalizedPrimer) - 2) :
       CharAt(normalizedPrimer, x)
         = CharAt(normalizedSequence, endPos - Len(normalizedPrimer) + 1 + x)

SitesOf(arr, forward) == {x \in 1..Len(arr) : arr[x].forward = forward}

\* No candidate and no returned site comes from a window whose 3'-terminal
\* base differs, whatever maxMismatches is.
NoSiteOn3PrimeMismatch ==
  /\ \A e \in ForwardWindows :
       Forward3PrimeMismatch(e) =>
         /\ \A x \in SitesOf(results, TRUE) : results[x].end # e
         /\ \A x \in SitesOf(returned, TRUE) : returned[x].end # e
  /\ \A st \in ReverseWindows :
       Reverse3PrimeMismatch(st) =>
         /\ \A x \in SitesOf(results, FALSE) : results[x].start # st
         /\ \A x \in SitesOf(returned, FALSE) : returned[x].start # st

\* The primer is the template's window at offset p with its last base
\* changed; that window's text occurs nowhere else in the template, and the
\* changed primer itself occurs verbatim on no searched strand.
FlippedFromOnlyOccurrence(p) ==
  LET len == Len(normalizedPrimer)
      original == Slice(normalizedSequence, p, p + len)
  IN /\ len >= 1
     /\ p + len <= Len(normalizedSequence)
     /\ ForwardOnly3PrimeDiffers(p + len - 1)
     /\ \A q \in 0..(Len(normalizedSequence) - 1) :
          /\ OccursLinearlyAt(original, normalizedSequence, q) => q = p
          /\ ~OccursLinearlyAt(normalizedPrimer, normalizedSequence, q)
          /\ searchReverseStrand =>
               ~OccursLinearlyAt(ReverseComplement(normalizedPrimer),
                                 normalizedSequence, q)

\* The primer's 3' seed pairs with no window of a searched strand.
SeedPairsNowhere ==
  LET len == Len(normalizedPrimer)
      k == minBindingRegion
      primerRC == ReverseComplement(normalizedPrimer)
  IN \/ k > len
     \/ /\ \A e \in ForwardWindows :
             \E x \in 0..(k - 1) :
               CharAt(normalizedPrimer, len - k + x)
                 # CharAt(normalizedSequence, e - k + 1 + x)
        /\ searchReverseStrand =>
             \A st \in ReverseWindows :
               \E x \in 0..(k - 1) :
                 CharAt(primerRC, x) # CharAt(normalizedSequence, st + x)

\* C4 (as claimed): a window whose 3'-terminal base differs yields no site,
\* whatever maxMismatches is; so a primer whose last base is flipped relative
\* to its only occurrence in the template gives [] with maxMismatches = 0.
C4_FlippedPrimerGivesNothing ==
  /\ NoSiteOn3PrimeMismatch
  /\ ( /\ Done
       /\ maxMismatches = 0
       /\ \E p \in 0..(Len(normalizedSequence) - 1) : FlippedFromOnlyOccurrence(p) )
     => returned = <<>>

\* C4 (amended): a window whose 3'-terminal base differs yields no site,
\* whatever maxMismatches is; and a primer whose last base is flipped relative
\* to its only occurrence in the template gives [], with maxMismatches = 0 as
\* with any other, when its 3' seed pairs with no window of a searched strand.
C4_ThreePrimeExact ==
  /\ NoSiteOn3PrimeMismatch
  /\ ( /\ Done
       /\ \E p \in 0..(Len(normalizedSequence) - 1) : FlippedFromOnlyOccurrence(p)
       /\ SeedPairsNowhere )
     => returned = <<>>

C4_Witness ==
  /\ Done
  /\ maxMismatches > 0
  /\ minBindingRegion = 2
  /\ Len(normalizedPrimer) = 3
  /\ searchReverseStrand
  /\ \E p \in 1..(Len(normalizedSequence) - 1) : FlippedFromOnlyOccurrence(p)
  /\ SeedPairsNowhere
  /\ returned = <<>>

\* ---------------------------------------------------------------------- C5
\* The primer equals the template read circularly from offset p.
OccursAt(primer, template, p) ==
  \A x \in 0..(Len(primer) - 1) :
    CharAt(primer, x) = CharAt(template, (p + x) % Len(template))

\* Offsets whose primer-length window runs over the end of the template.
WrapOffsets(primer, template) ==
  {p \in 0..(Len(template) - 1) : p + Len(primer) > Len(template)}
LinearOffsets(primer, template) ==
  {p \in 0..(Len(template) - 1) : p + Len(primer) <= Len(template)}

\* The only exact match of the primer spans the wrap boundary.
OnlyMatchSpansBoundary ==
  /\ Len(normalizedPrimer) >= 2
  /\ Len(normalizedPrimer) <= Len(normalizedSequence)
  /\ \E p \in WrapOffsets(normalizedPrimer, normalizedSequence) :
       OccursAt(normalizedPrimer, normalizedSequence, p)
  /\ \A p \in LinearOffsets(normalizedPrimer, normalizedSequence) :
       ~OccursAt(normalizedPrimer, normalizedSequence, p)

\* The exact match is returned: a forward site that binds the whole primer
\* without a mismatch.
ExactForwardSiteReturned ==
  \E x \in 1..Len(returned) :
    /\ returned[x].forward
    /\ returned[x].overhangLength = 0
    /\ returned[x].numMismatches = 0

\* C5 (as claimed): a primer whose only exact match spans the wrap boundary
\* is returned when isCircular is true and absent when it is false.
C5_WrapMatchFoundIffCircular ==
  ( /\ Done
    /\ OnlyMatchSpansBoundary
    /\ maxMismatches >= 0
    /\ minBindingRegion <= Len(normalizedPrimer) )
  => (ExactForwardSiteReturned <=> isCircular)

\* ---------------------------------------------------------------------- C6
FullInterval(site, p) ==
  site.start = p /\ site.end = p + Len(normalizedPrimer) - 1

\* The search of the reverse complement of the primer on the same template,
\* reverse strand included.
AntisenseSearch ==
  findPrimerBindingSites(ReverseComplement(normalizedPrimer), fullSequence,
                         maxMismatches, TRUE, isCircular, calculateTm,
                         minBindingRegion).value

SymmetryCase == Done /\ ~isCircular /\ ~searchReverseStrand

\* C6 (as claimed): on a linear template the forward-only search of P returns
\* a forward site on [p, p+len-1] exactly when the reverse-strand search of
\* reverseComplement(P) returns a reverse site on that interval, for every
\* maxMismatches and minBindingRegion.
C6_ReverseComplementSymmetry ==
  SymmetryCase =>
    \A p \in 0..(Len(normalizedSequence) - 1) :
      (\E x \in 1..Len(returned) :
         returned[x].forward /\ FullInterval(returned[x], p))
      <=>
      (\E y \in 1..Len(AntisenseSearch) :
         ~AntisenseSearch[y].forward /\ FullInterval(AntisenseSearch[y], p))

\* C6 (amended): the equivalence holds for exactly matching sites: the
\* forward-only search of P returns a forward site without mismatches on
\* [p, p+len-1] exactly when the reverse-strand search of reverseComplement(P)
\* returns a reverse site without mismatches on that interval.
C6_ExactSiteSymmetry ==
  SymmetryCase =>
    LET antisense == AntisenseSearch
        forwardExact ==
          {returned[x].start : x \in
             {x \in 1..Len(returned) :
                /\ returned[x].forward
                /\ returned[x].numMismatches = 0
                /\ FullInterval(returned[x], returned[x].start)}}
        reverseExact ==
          {antisense[y].start : y \in
             {y \in 1..Len(antisense) :
                /\ ~antisense[y].forward
                /\ antisense[y].numMismatches = 0
                /\ FullInterval(antisense[y], antisense[y].start)}}
    IN forwardExact = reverseExact

C6_Witness ==
  /\ SymmetryCase
  /\ maxMismatches > 0
  /\ LET antisense == AntisenseSearch
     IN \E x \in 1..Len(returned), y \in 1..Len(antisense) :
          /\ returned[x].forward
          /\ returned[x].numMismatches = 0
          /\ FullInterval(returned[x], 1)
          /\ ~antisense[y].forward
          /\ antisense[y].numMismatches = 0
          /\ FullInterval(antisense[y], 1)
  /\ \E x \in 1..Len(returned) : returned[x].numMismatches > 0

\* ---------------------------------------------------------------------- C7
Seed3Prime ==
  Slice(normalizedPrimer, Len(normalizedPrimer) - minBindingRegion,
        Len(normalizedPrimer))

\* The primer occurs verbatim at offset p and nowhere else, and its 3' seed
\* occurs nowhere but inside that occurrence.
UniqueOccurrenceAt(p) ==
  /\ Len(normalizedPrimer) >= minBindingRegion
  /\ OccursLinearlyAt(normalizedPrimer, normalizedSequence, p)
  /\ \A q \in 0..(Len(normalizedSequence) - 1) :
       OccursLinearlyAt(normalizedPrimer, normalizedSequence, q) => q = p
  /\ \A q \in 0..(Len(normalizedSequence) - 1) :
       OccursLinearlyAt(Seed3Prime, normalizedSequence, q)
         => q = p + Len(normalizedPrimer) - minBindingRegion

C8_NegativeBudgetGivesNothing ==
  (Done /\ maxMismatches < 0) => returned = <<>>

\* ---------------------------------------------------------------------- C9
\* C9: with minBindingRegion greater than the primer length no candidate is
\* ever produced and the call returns [], for every template, strand setting
\* and maxMismatches.
C9_SeedLongerThanPrimer ==
  minBindingRegion > Len(NormalizePrimer(primerSequence)) =>
    /\ results = <<>>
    /\ returned = <<>>
    /\ dominated = {}

C9_Witness ==
  /\ Done
  /\ minBindingRegion > Len(primerSequence)
  /\ Len(primerSequence) = 3
  /\ maxMismatches = 2
  /\ searchReverseStrand
  /\ scans = <<"+", "-">>
  /\ \E p \in 0..(Len(normalizedSequence) - 1) :
       OccursLinearlyAt(normalizedPrimer, normalizedSequence, p)
  /\ returned = <<>>

\* --------------------------------------------------------------------- C10
EmptyInput == Len(primerSequence) = 0 \/ Len(fullSequence) = 0

\* C10: with an empty primerSequence or fullSequence the call returns the
\* empty list at once: no strand is scanned, and the call ends.
C10_EmptyInputShortCircuits ==
  EmptyInput =>
    /\ scans = <<>>
    /\ results = <<>>
    /\ returned = <<>>
    /\ pc \in {"call", "done"}
    /\ pc = "call" => ENABLED ReturnEmpty

C10_Witness ==
  /\ Done
  /\ Len(primerSequence) = 0
  /\ Len(fullSequence) = MaxTemplateLen
  /\ returned = <<>>
  /\ scans = <<>>

\* --------------------------------------------------------------------- C11
\* C11 (as claimed): the returned list, sites of both strands together, is
\* ascending by start, and two sites with the same start are in ascending
\* order of overhangLength.
C11_SortedByStartThenOverhang ==
  Done =>
    \A x, y \in 1..Len(returned) :
      x < y =>
        \/ returned[x].start < returned[y].start
        \/ /\ returned[x].start = returned[y].start
           /\ returned[x].overhangLength <= returned[y].overhangLength

\* --------------------------------------------------------------------- C12
SeqSet(s) == {s[x] : x \in 1..Len(s)}

\* The primer base at offset m of the binding region (counted from the 5' end
\* of bindingSequence) pairs with the template base it lies on.
PairsAt(site, m) ==
  IF site.forward
  THEN CharAt(normalizedPrimer, site.overhangLength + m)
         = CharAt(normalizedSequence, site.start + m)
  ELSE ComplementChar(CharAt(normalizedPrimer, site.overhangLength + m))
         = CharAt(normalizedSequence, site.end - m)

\* C12: on either strand mismatchPositions is exactly the set of offsets of
\* the binding region, in original-primer orientation, where the primer does
\* not pair with the template, and fullPrimerMismatchPositions is exactly the
\* overhang positions 0..overhangLength-1 together with those offsets shifted
\* by overhangLength.
C12_MismatchPositionsInPrimerCoordinates ==
  Done =>
    \A x \in 1..Len(returned) :
      LET site == returned[x]
      IN /\ SeqSet(site.mismatchPositions) =
              {m \in 0..(Len(site.bindingSequence) - 1) : ~PairsAt(site, m)}
         /\ SeqSet(site.fullPrimerMismatchPositions) =
              (0..(site.overhangLength - 1)) \cup
              {site.overhangLength + m : m \in SeqSet(site.mismatchPositions)}

C12_Witness ==
  /\ Done
  /\ \E x \in 1..Len(returned) :
       /\ ~returned[x].forward
       /\ returned[x].overhangLength > 0
       /\ returned[x].numMismatches > 0
  /\ \E x \in 1..Len(returned) :
       /\ returned[x].forward
       /\ returned[x].numMismatches > 0

\* --------------------------------------------------------------------- C14
\* template[from..to], both ends included.
TemplateSlice(from, to) ==
  [x \in 1..(to - from + 1) |-> CharAt(normalizedSequence, from + x - 1)]

\* C14: for every returned site end - start + 1 is the length of
\* bindingSequence, and matchedSequence is the template slice from start to
\* end (so it has that length too).
C14_IntervalMatchesBindingSequence ==
  Done =>
    \A x \in 1..Len(returned) :
      LET site == returned[x]
      IN /\ site.end - site.start + 1 = Len(site.bindingSequence)
         /\ site.matchedSequence = TemplateSlice(site.start, site.end)
         /\ Len(site.matchedSequence) = Len(site.bindingSequence)

C14_Witness ==
  /\ Done
  /\ \E x \in 1..Len(returned) :
       /\ returned[x].forward
       /\ returned[x].overhangLength > 0
       /\ returned[x].start > 0
  /\ \E x \in 1..Len(returned) :
       /\ ~returned[x].forward
       /\ returned[x].overhangLength > 0

\* --------------------------------------------------------------------- C15
\* C15: for every returned site numMismatches is the number of entries of
\* mismatchPositions, is at most maxMismatches when that is not negative, and
\* counts positions of the binding region only: every entry is an offset
\* inside the binding region, and the count is the number of binding-region
\* offsets that do not pair, whatever the overhang bases are.
C15_MismatchesWithinBudgetAndBindingRegion ==
  Done =>
    \A x \in 1..Len(returned) :
      LET site == returned[x]
          bindingOffsets == 0..(Len(site.bindingSequence) - 1)
      IN /\ site.numMismatches = Len(site.mismatchPositions)
         /\ maxMismatches >= 0 => site.numMismatches <= maxMismatches
         /\ SeqSet(site.mismatchPositions) \subseteq bindingOffsets
         /\ site.numMismatches =
              Cardinality({m \in bindingOffsets : ~PairsAt(site, m)})

\* A site that spent the whole budget and left unpaired bases in the overhang.
C15_Witness ==
  /\ Done
  /\ maxMismatches = 1
  /\ \E x \in 1..Len(returned) :
       LET site == returned[x]
       IN /\ site.numMismatches = 1
          /\ site.overhangLength > 0
          /\ site.forward
          /\ CharAt(normalizedPrimer, site.overhangLength - 1)
               # CharAt(normalizedSequence, site.start - 1)

\* --------------------------------------------------------------------- C16
\* C16 (as claimed): every step of the filter's loops that reaches the
\* comparison of a pair (the pair is di', dj' - 1 after the step) compares two
\* candidates neither of which is marked, marks exactly one new loser, and
\* unmarks nothing: a marked candidate takes part in no further comparison.
C16_LoserMarkedOnce ==
  [][(pc = "dedup" /\ pc' = "dedup") =>
       /\ di' \notin dominated
       /\ (dj' - 1) \notin dominated
       /\ dominated \subseteq dominated'
       /\ Cardinality(dominated') = Cardinality(dominated) + 1]_vars

\* --------------------------------------------------------------------- C17
\* C17: with isCircular false every returned site has
\* 0 <= start <= end <= templateLength - 1, and the primer-length window it
\* came from, overhang included, lies inside the template: it reaches down to
\* start - overhangLength on the forward strand and up to
\* end + overhangLength on the reverse strand.  A primer longer than the
\* template gives the empty list.
C17_LinearSitesInsideTemplate ==
  (Done /\ ~isCircular) =>
    /\ \A x \in 1..Len(returned) :
         LET site == returned[x]
             templateLength == Len(normalizedSequence)
         IN /\ 0 <= site.start
            /\ site.start <= site.end
            /\ site.end <= templateLength - 1
            /\ site.forward => site.start - site.overhangLength >= 0
            /\ ~site.forward =>
                 site.end + site.overhangLength <= templateLength - 1
    /\ Len(NormalizePrimer(primerSequence)) > Len(fullSequence) =>
         returned = <<>>

\* Windows with an overhang that touch either end of the template.
C17_Witness ==
  /\ Done
  /\ ~isCircular
  /\ \E x \in 1..Len(returned) :
       /\ returned[x].forward
       /\ returned[x].overhangLength > 0
       /\ returned[x].start - returned[x].overhangLength = 0
  /\ \E x \in 1..Len(returned) :
       /\ ~returned[x].forward
       /\ returned[x].overhangLength > 0
       /\ returned[x].end + returned[x].overhangLength
            = Len(normalizedSequence) - 1
  /\ \E x \in 1..Len(returned) :
       /\ returned[x].forward
       /\ returned[x].end = Len(normalizedSequence) - 1

\* --------------------------------------------------------------------- C20
\* C20: the site at index i of the returned list has the id binding-site-i,
\* the index being the one after sorting and deduplication, so the ids are
\* binding-site-0 .. binding-site-(n-1) in list order and no two are equal.
C20_SequentialIds ==
  Done =>
    /\ \A x \in 1..Len(returned) : returned[x].id = <<"binding-site-", x - 1>>
    /\ \A x, y \in 1..Len(returned) :
         x # y => returned[x].id # returned[y].id

\* A list from which the filter removed a candidate that was not the last.
C20_Witness ==
  /\ Done
  /\ Len(returned) >= 3
  /\ \E d \in dominated : d < Len(results) - 1

\* --------------------------------------------------------------------- C18
\* The sites the same call returns with a calculator that never fails.
UnfailingSearch ==
  findPrimerBindingSites(primerSequence, fullSequence, maxMismatches,
                         searchReverseStrand, isCircular, "wallace",
                         minBindingRegion).value

\* C18 (as claimed): a calculateTm that throws for some binding sequence does
\* not abort the search: the call returns the sites it returns with an
\* unfailing calculator, tm being null for the sites the calculator failed on;
\* and with calculateTm left out every site has tm null.
C18_TmFailureDoesNotAbort ==
  /\ pc # "threw"
  /\ Done =>
       LET unfailing == UnfailingSearch
       IN /\ Len(returned) = Len(unfailing)
          /\ \A x \in 1..Len(returned) :
               /\ returned[x].start = unfailing[x].start
               /\ returned[x].end = unfailing[x].end
               /\ returned[x].forward = unfailing[x].forward
               /\ returned[x].id = unfailing[x].id
               /\ returned[x].tm =
                    IF \/ calculateTm = "omitted"
                       \/ Rejects(calculateTm, returned[x].bindingSequence)
                    THEN {}
                    ELSE unfailing[x].tm

\* --------------------------------------------------------------------- C19
\* The offsets at which a primer-length window fits the linear template.
WindowStarts ==
  {p \in 0..Len(normalizedSequence) :
     p + Len(normalizedPrimer) <= Len(normalizedSequence)}

\* The number of positions at which seq differs from the window at offset p.
HammingAt(seq, p) ==
  Cardinality({x \in 0..(Len(seq) - 1) :
                 CharAt(seq, x) # CharAt(normalizedSequence, p + x)})

\* The scan of the strand produced a candidate from the window at offset p.
CandidateFromWindow(forward, p) ==
  \E x \in 1..Len(results) :
    /\ results[x].forward = forward
    /\ p = IF forward
           THEN results[x].start - results[x].overhangLength
           ELSE results[x].start

\* C19 (as claimed): with detectOverhang false a window is a candidate
\* exactly when the whole primer (its reverse complement on the reverse
\* strand) differs from the window in at most maxMismatches positions, with
\* no 3' seed requirement, and every returned site has overhangLength 0 and a
\* binding region as long as the primer.  (Stated for a budget that is not
\* negative; the negative budget is the subject of C8.)
C19_PlainHammingWhenDetectOverhangOff ==
  (Done /\ ~detectOverhang /\ Len(normalizedPrimer) > 0 /\ maxMismatches >= 0) =>
    /\ \A x \in 1..Len(returned) :
         /\ returned[x].overhangLength = 0
         /\ Len(returned[x].bindingSequence) = Len(normalizedPrimer)
    /\ \A p \in WindowStarts :
         CandidateFromWindow(TRUE, p)
           <=> HammingAt(normalizedPrimer, p) <= maxMismatches
    /\ searchReverseStrand =>
         \A p \in WindowStarts :
           CandidateFromWindow(FALSE, p)
             <=> HammingAt(ReverseComplement(normalizedPrimer), p)
                   <= maxMismatches

\* --------------------------------------------------------------------- C13
\* C13 (as claimed): for every returned site on either strand
\* overhangSequence is the first overhangLength characters of primerSequence
\* and bindingSequence is the rest of it, so overhangLength and the length of
\* bindingSequence add up to the length of primerSequence.
C13_OverhangPrefixBindingSuffix ==
  Done =>
    \A x \in 1..Len(returned) :
      LET site == returned[x]
          primerLength == Len(site.primerSequence)
      IN /\ 0 <= site.overhangLength
         /\ site.overhangLength <= primerLength
         /\ site.overhangSequence =
              [y \in 1..site.overhangLength |-> site.primerSequence[y]]
         /\ site.bindingSequence =
              [y \in 1..(primerLength - site.overhangLength) |->
                 site.primerSequence[site.overhangLength + y]]
         /\ site.overhangLength + Len(site.bindingSequence) = primerLength

C22_ExtensionStopsOnlyWhenBudgetSpent ==
  Done /\ maxMismatches >= 0 =>
    \A x \in 1..Len(returned) :
      returned[x].overhangLength > 0 =>
        /\ ~PairsAt(returned[x], 0 - 1)
        /\ returned[x].numMismatches = maxMismatches

\* Both strands have returned a site with an overhang after spending a
\* budget of one mismatch.
C22_Witness ==
  /\ Done
  /\ maxMismatches = 1
  /\ \E x \in 1..Len(returned) :
       returned[x].forward /\ returned[x].overhangLength > 0
  /\ \E x \in 1..Len(returned) :
       ~returned[x].forward /\ returned[x].overhangLength > 0

\* --------------------------------------------------------------------- C23
\* The 3' end coordinate of a site: end on the forward strand, start on the
\* reverse strand.
ThreePrimeEnd(site) == IF site.forward THEN site.end ELSE site.start

\* C23: the returned list holds no pair of duplicates: no two returned sites
\* of one strand share their 3' end coordinate, and no two overlap by more
\* than half of the shorter interval.
C23_NoDuplicatesInOutput ==
  Done =>
    \A x, y \in 1..Len(returned) :
      x # y /\ returned[x].forward = returned[y].forward =>
        /\ ThreePrimeEnd(returned[x]) # ThreePrimeEnd(returned[y])
        /\ 2 * Overlap(returned[x], returned[y])
             <= ShorterLength(returned[x], returned[y])

\* The filter has discarded a candidate and has left two sites of one strand
\* that touch or overlap without being duplicates.
C23_Witness ==
  /\ Done
  /\ dominated # {}
  /\ \E x, y \in 1..Len(returned) :
       /\ x # y
       /\ returned[x].forward = returned[y].forward
       /\ Overlap(returned[x], returned[y]) > 0

\* --------------------------------------------------------------------- C24
\* The ranking key of a candidate.
RankKey(site) ==
  <<site.numMismatches, site.overhangLength, Len(site.bindingSequence)>>

\* x is strictly better than y as the function decides it: the keys differ
\* and both calls, xy for (x, y) and yx for (y, x), return x.
StrictlyBetter(x, y, xy, yx) == RankKey(x) # RankKey(y) /\ xy = x /\ yx = x

\* C24: getBetterBindingSite is a strict ranking by fewer numMismatches, then
\* shorter overhangLength, then longer bindingSequence.  When two candidates
\* differ in that key both argument orders return the same candidate, the
\* one the key ranks better; strictly better is irreflexive and transitive;
\* and when the whole key ties the first argument is returned.
C24_StrictRanking ==
  pc = "ranked" =>
    LET a == results[1]
        b == results[2]
        c == results[3]
        ab == returned[1]
        ba == returned[2]
        bc == returned[3]
        cb == returned[4]
        ac == returned[5]
        ca == returned[6]
    IN /\ RankKey(a) # RankKey(b) =>
            /\ ab = ba
            /\ ab = IF RanksBetter(a, b) THEN a ELSE b
            /\ RanksBetter(a, b) # RanksBetter(b, a)
       /\ RankKey(a) = RankKey(b) => ab = a /\ ba = b
       /\ ~(StrictlyBetter(a, b, ab, ba) /\ StrictlyBetter(b, a, ba, ab))
       /\ StrictlyBetter(a, b, ab, ba) /\ StrictlyBetter(b, c, bc, cb) =>
            StrictlyBetter(a, c, ac, ca)

\* Three candidates ranked in a chain, each step decided by another field,
\* and a pair that ties on the whole key.
C24_Witness ==
  /\ pc = "ranked"
  /\ results[1].numMismatches < results[2].numMismatches
  /\ results[2].numMismatches = results[3].numMismatches
  /\ results[2].overhangLength = results[3].overhangLength
  /\ Len(results[2].bindingSequence) > Len(results[3].bindingSequence)
  /\ returned[5] = results[1]

\* --------------------------------------------------------------------- C26
\* C26 (as claimed): every candidate the filter discards is a duplicate of a
\* candidate that survives: the returned list holds a site of the same strand
\* that overlaps the discarded one by more than half of the shorter interval
\* and ranks at least as well.
C26_DiscardedHasSurvivingDuplicate ==
  Done =>
    \A i \in dominated :
      \E y \in 1..Len(returned) :
        /\ Duplicates(At(results, i), returned[y])
        /\ ~RanksBetter(At(results, i), returned[y])

\* --------------------------------------------------------------------- C27
\* Candidate k of the sorted list justifies discarding candidate i: it is
\* another candidate of the same strand that duplicates i and either ranks
\* strictly better, or ranks equal and precedes i.
JustifiesDiscard(k, i) ==
  /\ k # i
  /\ Duplicates(At(results, k), At(results, i))
  /\ \/ RanksBetter(At(results, k), At(results, i))
     \/ /\ ~RanksBetter(At(results, i), At(results, k))
        /\ k < i

\* C27: a candidate is discarded only if some candidate justifies it; so a
\* candidate of the other strand never causes a discard, and a candidate
\* strictly better than each of its same-strand duplicates is returned.
C27_DiscardOnlyForBetterDuplicate ==
  Done =>
    /\ \A i \in dominated : \E k \in Indices : JustifiesDiscard(k, i)
    /\ \A i \in Indices :
         (\A k \in Indices \ {i} :
            Duplicates(At(results, k), At(results, i)) =>
              RanksBetter(At(results, i), At(results, k)))
         => /\ i \notin dominated
            /\ InOutput(At(results, i))

\* A candidate was discarded while a candidate of the other strand overlaps
\* it, and a candidate with duplicates that is better than all of them was
\* kept.
C27_Witness ==
  /\ Done
  /\ \E i \in dominated : \E k \in Indices :
       /\ At(results, k).forward # At(results, i).forward
       /\ 2 * Overlap(At(results, k), At(results, i))
            > ShorterLength(At(results, k), At(results, i))
  /\ \E i \in Indices \ dominated : \E k \in Indices \ {i} :
       /\ Duplicates(At(results, k), At(results, i))
       /\ \A n \in Indices \ {i} :
            Duplicates(At(results, n), At(results, i)) =>
              RanksBetter(At(results, i), At(results, n))

\* --------------------------------------------------------------------- C28
\* The result of the consecutive-match copy on the arguments of the call.
ConsecutiveOutcome ==
  findPrimerBindingSitesConsecutive(primerSequence, fullSequence,
                                    searchReverseStrand, isCircular,
                                    calculateTm, minBindingRegion)

\* C28: called with maxMismatches = 0 the seed-and-extend copy returns what
\* the consecutive-match copy returns, field for field and in the same order,
\* for every primer, template, searchReverseStrand, isCircular and
\* minBindingRegion.
C28_ConsecutiveEqualsZeroBudget ==
  Done /\ maxMismatches = 0 => Returns(returned) = ConsecutiveOutcome

\* A call with no mismatch allowed has returned sites of both strands, one of
\* them with an overhang, after discarding a duplicate.
C28_Witness ==
  /\ Done
  /\ maxMismatches = 0
  /\ dominated # {}
  /\ \E x \in 1..Len(returned) :
       returned[x].forward /\ returned[x].overhangLength > 0
  /\ \E x \in 1..Len(returned) : ~returned[x].forward

\* --------------------------------------------------------------------- C29
\* The ids of the tab objects, in the order of tabs.
TabIds == [x \in 1..Len(tabs) |-> tabs[x].id]

\* p lists the members of q, each as often as q does.
IsPermutationOf(p, q) ==
  /\ Len(p) = Len(q)
  /\ \A id \in SeqSet(p) \cup SeqSet(q) :
       Cardinality({x \in 1..Len(p) : p[x] = id})
         = Cardinality({x \in 1..Len(q) : q[x] = id})

\* C29: after any sequence of addFileTab with fresh ids, closeFileTab,
\* setActiveFileTab, renameFileTab, setFileTabModified and drag reorders from
\* the initial state, tabOrder is a permutation of the ids of tabs, and
\* activeTabId is null exactly when there is no tab and is otherwise the id
\* of an existing tab.
C29_OrderAndActiveTabConsistent ==
  pc = "tabs" =>
    /\ IsPermutationOf(tabOrder, TabIds)
    /\ activeTabId = "null" <=> Len(tabs) = 0
    /\ Len(tabs) > 0 => HasTab(TabState, activeTabId)

\* Three tabs are open after one was closed, the order was changed by a drag
\* and the active tab is not the one added last.
C29_Witness ==
  /\ pc = "tabs"
  /\ Len(tabs) = 3
  /\ idsGenerated > 3
  /\ tabOrder # TabIds
  /\ activeTabId # tabs[3].id
  /\ \E x \in 1..3 : tabs[x].isModified

\* --------------------------------------------------------------------- C30
\* C30 (as claimed): after initializeMultiTabEditor on the empty state with
\* at least one payload tab, tabOrder lists the ids of the created tabs in
\* payload order and activeTabId is the id of one of them, also when the
\* payload tabs carry no id and the ids are generated.  (The payload names
\* no active tab, or one of its own tabs.)
C30_InitializeOrderMatchesTabs ==
  /\ pc = "initialized"
  /\ Len(payload.tabs) > 0
  /\ \/ payload.activeTabId = "undefined"
     \/ \E x \in 1..Len(payload.tabs) : payload.tabs[x].id = payload.activeTabId
  => /\ Len(tabs) = Len(payload.tabs)
     /\ tabOrder = TabIds
     /\ HasTab(TabState, activeTabId)
     /\ Len(getOrderedFileTabs(TabState)) = Len(tabs)
     /\ Len(getActiveFileTab(TabState)) = 1

\* --------------------------------------------------------------------- C25
\* The editor has mounted: a commit has ended and no render is due.
Mounted == pc = "committed" /\ renderedTabCount = Len(tabs)

\* C25 (as claimed): when the editor mounts with persistence enabled and a
\* saved, non-empty tab set in localStorage, then once mounted the store
\* holds the saved tabs, tabOrder and activeTabId: the mount effects added
\* no tab and left the restored activeTabId alone.
C25_RestoredTabsNotExtended ==
  Mounted /\ enabled /\ storage # <<>> =>
    /\ tabs = storage[1].tabs
    /\ tabOrder = storage[1].tabOrder
    /\ activeTabId = storage[1].activeTabId
====
